---- MODULE Spec2Model ----
(***************************************************************************)
(* RizzScript: the lexically scoped Environment, the runtime values and    *)
(* the tree-walking evaluator, driven by the read-eval-print loop.         *)
(*                                                                         *)
(* The state is the store the interpreter keeps between two inputs of the  *)
(* REPL: the Environment objects (envs), the arrays and objects they       *)
(* share by reference (heap), the chain of block scopes the running        *)
(* program is inside (cur), and what the last input produced (result,      *)
(* thrown).  evaluate is the interpreter's recursive evaluate(), threading *)
(* the store through every call exactly in the order the code does.        *)
(***************************************************************************)
EXTENDS Integers, Sequences, FiniteSets, TLC

VARIABLES envs, heap, cur, result, thrown, last, timeoutIds

vars == <<envs, heap, cur, result, thrown, last, timeoutIds>>

-----------------------------------------------------------------------------
(* Bounds of the model.                                                    *)

\* Environment objects alive at once.
MaxEnvs == 7
\* Arrays and objects alive at once.
MaxHeap == 7
\* Nesting depth of the blocks the running program is inside.
MaxDepth == 1
\* The same, for the programs that only declare, assign and look up.
MaxNest == 2
\* Iterations a single for statement may run before the model gives up.
MaxIter == 3
\* Length of the array of test values a for statement walks.
MaxLen == 2

-----------------------------------------------------------------------------
(* Runtime values.                                                         *)

\* JavaScript's undefined: what args[i] is for a missing argument, what
\* Map.get gives for a missing key, what an omitted parameter is.  It is not
\* a RuntimeValue: it has no type tag, and reading a field of it throws.
Undefined == [type |-> "<undefined>"]

IsUndefined(v) == v.type = "<undefined>"

MK_NULL == [type |-> "null"]

MK_BOOL(bool) == [type |-> "boolean", value |-> bool]

MK_NUMBER(num) == [type |-> "number", value |-> num]

MK_STRING(val) == [type |-> "string", value |-> val]

\* An object value holds a reference to its properties Map (a heap handle).
MK_OBJECT(properties) == [type |-> "object", ref |-> properties]

\* An array value holds a reference to its elements array (a heap handle).
MK_ARRAY(elements) == [type |-> "array", ref |-> elements]

MK_NATIVE_FN(call) == [type |-> "native-fn", call |-> call]

ValueType ==
    {"null", "number", "boolean", "object", "native-fn", "fn", "string", "array"}

\* The field `value` of a runtime value, as the JavaScript value it is:
\* a boolean, a number, a string, null, or undefined when the value has no
\* such field (arrays, objects, functions).
ValueField(v) ==
    CASE v.type \in {"boolean", "number", "string"} ->
             [v |-> v.value, js |-> v.type]
      [] v.type = "null" -> [js |-> "null"]
      [] OTHER -> [js |-> "undefined"]

\* j === true
StrictlyTrue(j) == j.js = "boolean" /\ j.v = TRUE

\* JavaScript's ToBoolean(j), what `while (j)` and `if (j)` test.
Truthy(j) ==
    CASE j.js = "boolean" -> j.v
      [] j.js = "number" -> j.v # 0
      [] j.js = "string" -> j.v # ""
      [] OTHER -> FALSE

-----------------------------------------------------------------------------
(* The store.                                                              *)

EmptyMap == [n \in {} |-> MK_NULL]

MapSet(m, k, v) == [n \in (DOMAIN m) \cup {k} |-> IF n = k THEN v ELSE m[n]]

MapGet(m, k) == IF k \in DOMAIN m THEN m[k] ELSE Undefined

\* The key JavaScript's Map files a value under when the key expression is
\* undefined (no program string equals it).
UndefinedKey == "<undefined>"

FreeEnv == [live |-> FALSE, parent |-> 0, variables |-> EmptyMap, constants |-> {}]

FreeSlot == [type |-> "free", properties |-> EmptyMap, elements |-> <<>>, live |-> FALSE]

\* A failure that is not the program's: a bound of the model was reached.
Over == "<over>"

Ret(st, val) == [thrown |-> "none", val |-> val, st |-> st]

Throw(st, msg) == [thrown |-> msg, val |-> Undefined, st |-> st]

Failed(r) == r.thrown # "none"

SetMin(S) == CHOOSE x \in S : \A y \in S : x <= y

\* A constructor that leaves the parent out.
Environment_orphan(st, parentEnv) ==
    LET free == {i \in 1..MaxEnvs : ~st.envs[i].live} IN
    IF free = {} THEN Throw(st, Over)
    ELSE LET i == SetMin(free) IN
         Ret([st EXCEPT !.envs[i] = [live |-> TRUE, parent |-> 0,
                                     variables |-> EmptyMap, constants |-> {}]], i)

\* new Environment(parentEnv): a fresh object; its identity is the first
\* free index.  parentEnv = 0 is the constructor's undefined parent.
Environment(st, parentEnv) ==
    LET free == {i \in 1..MaxEnvs : ~st.envs[i].live} IN
    IF free = {} THEN Throw(st, Over)
    ELSE LET i == SetMin(free) IN
         Ret([st EXCEPT !.envs[i] = [live |-> TRUE, parent |-> parentEnv,
                                     variables |-> EmptyMap, constants |-> {}]], i)

\* new Map() of an object literal, filled with the given properties.
NewObject(st, properties) ==
    LET free == {h \in 1..MaxHeap : ~st.heap[h].live} IN
    IF free = {} THEN Throw(st, Over)
    ELSE LET h == SetMin(free) IN
         Ret([st EXCEPT !.heap[h] = [type |-> "object", properties |-> properties,
                                     elements |-> <<>>, live |-> TRUE]],
             MK_OBJECT(h))

\* The elements array of an array literal.
NewArray(st, elements) ==
    LET free == {h \in 1..MaxHeap : ~st.heap[h].live} IN
    IF free = {} THEN Throw(st, Over)
    ELSE LET h == SetMin(free) IN
         Ret([st EXCEPT !.heap[h] = [type |-> "array", properties |-> EmptyMap,
                                     elements |-> elements, live |-> TRUE]],
             MK_ARRAY(h))

-----------------------------------------------------------------------------
(* class Environment.                                                      *)

RECURSIVE resolve(_, _, _)
\* The environment of the chain from env outward that defines varname; 0
\* stands for the throw "Cannot resolve".
resolve(st, env, varname) ==
    IF varname \in DOMAIN st.envs[env].variables THEN env
    ELSE IF st.envs[env].parent = 0 THEN 0
    ELSE resolve(st, st.envs[env].parent, varname)

\* A declaration that refuses a name any scope of the chain defines.
declareVariable_chain(st, env, varname, value, isConst) ==
    IF resolve(st, env, varname) # 0
    THEN Throw(st, "already defined")
    ELSE Ret([st EXCEPT !.envs[env].variables = MapSet(@, varname, value),
                        !.envs[env].constants = IF isConst THEN @ \cup {varname} ELSE @],
             value)

declareVariable(st, env, varname, value, isConst) ==
    IF varname \in DOMAIN st.envs[env].variables
    THEN Throw(st, "already defined")
    ELSE Ret([st EXCEPT !.envs[env].variables = MapSet(@, varname, value),
                        !.envs[env].constants = IF isConst THEN @ \cup {varname} ELSE @],
             value)

\* An assignment that asks the initiating scope, not the defining one,
\* whether the name is constant.
assignVariable_thisConstants(st, this, varname, value) ==
    LET env == resolve(st, this, varname) IN
    IF env = 0 THEN Throw(st, "cannot resolve")
    ELSE IF varname \in st.envs[this].constants
    THEN Throw(st, "cannot reassign constant")
    ELSE Ret([st EXCEPT !.envs[env].variables =
                            MapSet(@, varname, value)],
             value)

\* An assignment that does not ask whether the name is constant.
assignVariable_unchecked(st, this, varname, value) ==
    LET env == resolve(st, this, varname) IN
    IF env = 0 THEN Throw(st, "cannot resolve")
    ELSE Ret([st EXCEPT !.envs[env].variables =
                            MapSet(@, varname, value)],
             value)

assignVariable(st, this, varname, value) ==
    LET env == resolve(st, this, varname) IN
    IF env = 0 THEN Throw(st, "cannot resolve")
    ELSE IF varname \in st.envs[env].constants
    THEN Throw(st, "cannot reassign constant")
    ELSE Ret([st EXCEPT !.envs[env].variables =
                            MapSet(@, varname, value)],
             value)

lookupVariable(st, this, varname) ==
    LET env == resolve(st, this, varname) IN
    IF env = 0 THEN Throw(st, "cannot resolve")
    ELSE Ret(st, st.envs[env].variables[varname])

-----------------------------------------------------------------------------
(* Expressions.                                                            *)

\* a === b on JavaScript values.
StrictEquals(a, b) ==
    /\ a.js = b.js
    /\ (a.js \in {"null", "undefined"} \/ a.v = b.v)

\* The field equals() reads off an operand, chosen by the left operand's
\* tag: value, body, call, properties or elements.  An operand of another
\* tag has no such field (undefined), except that boolean, number, string
\* and null all keep theirs in `value`.
ComparedField(tag, v) ==
    CASE tag \in {"boolean", "number", "string", "null"} -> ValueField(v)
      \* The parser builds one body array per declaration of the source
      \* text, and the programs here declare each name at one place: name
      \* and statements together identify the array.
      [] tag = "fn" ->
             IF v.type = "fn" THEN [v |-> <<v.name, v.body>>, js |-> "body"]
             ELSE [js |-> "undefined"]
      [] tag = "native-fn" ->
             IF v.type = "native-fn" THEN [v |-> v.call, js |-> "call"]
             ELSE [js |-> "undefined"]
      [] tag = "object" ->
             IF v.type = "object" THEN [v |-> v.ref, js |-> "properties"]
             ELSE [js |-> "undefined"]
      [] tag = "array" ->
             IF v.type = "array" THEN [v |-> v.ref, js |-> "elements"]
             ELSE [js |-> "undefined"]

equals(st, lhs, rhs, strict) ==
    IF IsUndefined(lhs) \/ IsUndefined(rhs) THEN Throw(st, "TypeError")
    ELSE IF lhs.type \notin ValueType THEN Throw(st, "unhandled type in equals")
    ELSE LET same == StrictEquals(ComparedField(lhs.type, lhs),
                                  ComparedField(lhs.type, rhs)) IN
         Ret(st, MK_BOOL(IF strict THEN same ELSE ~same))

\* The result of an operator on operands of the tag it requires.
Operate(st, lhs, rhs, operator) ==
    CASE operator = "|" -> Ret(st, MK_BOOL(lhs.value \/ rhs.value))
      [] operator = "&&" -> Ret(st, MK_BOOL(lhs.value /\ rhs.value))
      [] operator = "+" -> Ret(st, MK_NUMBER(lhs.value + rhs.value))
      [] operator = "-" -> Ret(st, MK_NUMBER(lhs.value - rhs.value))
      [] operator = "*" -> Ret(st, MK_NUMBER(lhs.value * rhs.value))
      \* The model's numbers are integers: a quotient or a remainder that
      \* is no non-negative integer is outside it.
      [] operator = "/" ->
             IF lhs.value >= 0 /\ rhs.value > 0 /\ lhs.value % rhs.value = 0
             THEN Ret(st, MK_NUMBER(lhs.value \div rhs.value))
             ELSE Throw(st, Over)
      [] operator = "%" ->
             IF lhs.value >= 0 /\ rhs.value > 0
             THEN Ret(st, MK_NUMBER(lhs.value % rhs.value))
             ELSE Throw(st, Over)
      [] operator = "<" -> Ret(st, MK_BOOL(lhs.value < rhs.value))
      [] operator = ">" -> Ret(st, MK_BOOL(lhs.value > rhs.value))
      [] OTHER -> Throw(st, "unknown operator")

\* The tag an operator requires of both operands.
Required(operator) == IF operator \in {"|", "&&"} THEN "boolean" ELSE "number"

\* An evaluation that raises on an operand of the wrong tag.
evaluateNumericBinaryExpression_raising(st, lhs, rhs, operator) ==
    IF operator \in {"!=", "=="} THEN equals(st, lhs, rhs, operator = "==")
    ELSE IF IsUndefined(lhs) \/ IsUndefined(rhs) THEN Throw(st, "TypeError")
    ELSE IF lhs.type # Required(operator) \/ rhs.type # Required(operator)
    THEN Throw(st, "type mismatch")
    ELSE Operate(st, lhs, rhs, operator)

\* An operand that is JavaScript's undefined fails the first read of its
\* type: the left one at once, the right one only when the left operand's
\* tag did not already decide the result.
evaluateNumericBinaryExpression(st, lhs, rhs, operator) ==
    IF operator \in {"!=", "=="} THEN equals(st, lhs, rhs, operator = "==")
    ELSE IF IsUndefined(lhs) THEN Throw(st, "TypeError")
    ELSE IF lhs.type # Required(operator) THEN Ret(st, MK_BOOL(FALSE))
    ELSE IF IsUndefined(rhs) THEN Throw(st, "TypeError")
    ELSE IF rhs.type # Required(operator) THEN Ret(st, MK_BOOL(FALSE))
    ELSE Operate(st, lhs, rhs, operator)

\* An optional part of an AST node that the parser left out.
Absent == [kind |-> "<absent>"]

\* (node as Identifier).symbol: the name of an Identifier, undefined for
\* every other node kind.
Symbol(node) == IF node.kind = "Identifier" THEN node.symbol ELSE UndefinedKey

HasSymbol(node) == node.kind = "Identifier"

RECURSIVE evaluate(_, _, _)
RECURSIVE evalStatements(_, _, _, _, _)
RECURSIVE lookupOrMutObject(_, _, _, _, _)
RECURSIVE evalArguments(_, _, _, _, _)
RECURSIVE evalProperties(_, _, _, _, _)
RECURSIVE evalElements(_, _, _, _, _)
RECURSIVE declareParams(_, _, _, _, _)
RECURSIVE forLoop(_, _, _, _)

\* for (const stmt of body) result = evaluate(stmt, env): the loop the
\* program, a block and a function body share; from statement i on.
evalStatements(body, i, env, st, lastEvaluated) ==
    IF i > Len(body) THEN Ret(st, lastEvaluated)
    ELSE LET r == evaluate(body[i], env, st) IN
         IF Failed(r) THEN r
         ELSE evalStatements(body, i + 1, env, r.st, r.val)

evaluateProgram(program, env, st) ==
    evalStatements(program.body, 1, env, st, MK_NULL)

evaluateIdentifier(ident, env, st) == lookupVariable(st, env, ident.symbol)

\* The elements of an array, index num (from 0), as elements[num] reads it.
ElementAt(elements, num) ==
    IF num >= 0 /\ num < Len(elements) THEN elements[num + 1] ELSE Undefined

\* elements[num] = value: in place, at the end, or past the end (the gap is
\* filled with undefined).
RECURSIVE PadTo(_, _)
PadTo(elements, n) ==
    IF Len(elements) >= n THEN elements ELSE PadTo(Append(elements, Undefined), n)

ElementSet(elements, num, value) ==
    [PadTo(elements, num + 1) EXCEPT ![num + 1] = value]

\* A path resolution whose write replaces the container's properties by
\* the written one alone.
lookupOrMutObject_alone(st, this, expr, value, property) ==
    LET past ==
            IF expr.object.kind = "MemberExpression"
            THEN lookupOrMutObject(st, this, expr.object, Undefined,
                                   expr.object.property)
            ELSE IF ~HasSymbol(expr.object) THEN Throw(st, "cannot resolve")
            ELSE lookupVariable(st, this, expr.object.symbol)
    IN
    IF Failed(past) THEN past
    ELSE IF IsUndefined(past.val) \/ past.val.type # "object"
    THEN Throw(past.st, "cannot lookup or mutate type")
    ELSE LET s2 == IF ~IsUndefined(value)
                   THEN [past.st EXCEPT !.heap[past.val.ref].properties =
                                            MapSet(EmptyMap, Symbol(expr.property), value)]
                   ELSE past.st
         IN Ret(s2, MapGet(s2.heap[past.val.ref].properties, Symbol(expr.property)))

\* A path resolution that stores the value before it looks at the index of
\* an array, and reads a key that is no number as undefined.
lookupOrMutObject_keyed(st, this, expr, value, property) ==
    LET past ==
            IF expr.object.kind = "MemberExpression"
            THEN lookupOrMutObject(st, this, expr.object, Undefined,
                                   expr.object.property)
            ELSE IF ~HasSymbol(expr.object) THEN Throw(st, "cannot resolve")
            ELSE lookupVariable(st, this, expr.object.symbol)
    IN
    IF Failed(past) THEN past
    ELSE IF IsUndefined(past.val) THEN Throw(past.st, "TypeError")
    ELSE LET pastVal == past.val
             s1 == past.st
         IN
         CASE pastVal.type = "object" ->
                  LET currentProp == Symbol(expr.property)
                      prop == IF property # Absent THEN Symbol(property)
                              ELSE currentProp
                      s2 == IF ~IsUndefined(value)
                            THEN [s1 EXCEPT !.heap[pastVal.ref].properties =
                                                MapSet(@, prop, value)]
                            ELSE s1
                  IN
                  IF HasSymbol(expr.property)
                  THEN Ret(s2, MapGet(s2.heap[pastVal.ref].properties, currentProp))
                  ELSE Ret(s2, pastVal)
           [] pastVal.type = "array" ->
                  LET numRT == evaluate(expr.property, this, s1) IN
                  IF Failed(numRT) THEN numRT
                  ELSE IF IsUndefined(numRT.val) THEN Throw(numRT.st, "TypeError")
                  ELSE IF numRT.val.type # "number"
                  THEN IF ~IsUndefined(value)
                       THEN Throw([numRT.st EXCEPT !.heap[pastVal.ref].elements =
                                                      ElementSet(@, 0, value)],
                                  "arrays do not have keys")
                       ELSE Ret(numRT.st, Undefined)
                  ELSE LET num == numRT.val.value
                           s2 == numRT.st
                       IN
                       \* An index that is negative or past MaxLen is
                       \* outside the model's arrays.
                       IF num < 0 \/ num > MaxLen + 1 THEN Throw(s2, Over)
                       ELSE IF ~IsUndefined(value)
                       THEN Ret([s2 EXCEPT !.heap[pastVal.ref].elements =
                                               ElementSet(@, num, value)],
                                value)
                       ELSE Ret(s2, ElementAt(s2.heap[pastVal.ref].elements, num))
           [] OTHER -> Throw(s1, "cannot lookup or mutate type")

lookupOrMutObject(st, this, expr, value, property) ==
    LET past ==
            IF expr.object.kind = "MemberExpression"
            THEN lookupOrMutObject(st, this, expr.object, Undefined,
                                   expr.object.property)
            ELSE IF ~HasSymbol(expr.object) THEN Throw(st, "cannot resolve")
            ELSE lookupVariable(st, this, expr.object.symbol)
    IN
    IF Failed(past) THEN past
    ELSE IF IsUndefined(past.val) THEN Throw(past.st, "TypeError")
    ELSE LET pastVal == past.val
             s1 == past.st
         IN
         CASE pastVal.type = "object" ->
                  LET currentProp == Symbol(expr.property)
                      prop == IF property # Absent THEN Symbol(property)
                              ELSE currentProp
                      s2 == IF ~IsUndefined(value)
                            THEN [s1 EXCEPT !.heap[pastVal.ref].properties =
                                                MapSet(@, prop, value)]
                            ELSE s1
                  IN
                  IF HasSymbol(expr.property)
                  THEN Ret(s2, MapGet(s2.heap[pastVal.ref].properties, currentProp))
                  ELSE Ret(s2, pastVal)
           [] pastVal.type = "array" ->
                  LET numRT == evaluate(expr.property, this, s1) IN
                  IF Failed(numRT) THEN numRT
                  ELSE IF IsUndefined(numRT.val) THEN Throw(numRT.st, "TypeError")
                  ELSE IF numRT.val.type # "number"
                  THEN Throw(numRT.st, "arrays do not have keys")
                  ELSE LET num == numRT.val.value
                           s2 == numRT.st
                       IN
                       \* An index that is negative or past MaxLen is
                       \* outside the model's arrays.
                       IF num < 0 \/ num > MaxLen + 1 THEN Throw(s2, Over)
                       ELSE IF ~IsUndefined(value)
                       THEN Ret([s2 EXCEPT !.heap[pastVal.ref].elements =
                                               ElementSet(@, num, value)],
                                value)
                       ELSE Ret(s2, ElementAt(s2.heap[pastVal.ref].elements, num))
           [] OTHER -> Throw(s1, "cannot lookup or mutate type")

evaluateMemberExpression(env, node, expr, st) ==
    IF expr # Absent THEN lookupOrMutObject(st, env, expr, Undefined, Absent)
    ELSE IF node # Absent
    THEN LET v == evaluate(node.value, env, st) IN
         IF Failed(v) THEN v
         ELSE lookupOrMutObject(v.st, env, node.assignee, v.val, Absent)
    ELSE Throw(st, "no member or assignment expression")

evaluateAssignment(node, env, st) ==
    IF node.assignee.kind = "MemberExpression"
    THEN evaluateMemberExpression(env, node, Absent, st)
    ELSE IF node.assignee.kind # "Identifier"
    THEN Throw(st, "invalid left-hand-side")
    ELSE LET v == evaluate(node.value, env, st) IN
         IF Failed(v) THEN v
         ELSE assignVariable(v.st, env, node.assignee.symbol, v.val)

\* The properties of an object literal, from property i on, set in order.
evalProperties(properties, i, env, st, map) ==
    IF i > Len(properties) THEN NewObject(st, map)
    ELSE LET p == properties[i]
             r == IF p.value = Absent THEN lookupVariable(st, env, p.key)
                  ELSE evaluate(p.value, env, st)
         IN
         IF Failed(r) THEN r
         ELSE evalProperties(properties, i + 1, env, r.st, MapSet(map, p.key, r.val))

evaluateObjectExpression(obj, env, st) ==
    evalProperties(obj.properties, 1, env, st, EmptyMap)

\* The values of an array literal, from value i on, pushed in order.
evalElements(values, i, env, st, elements) ==
    IF i > Len(values) THEN NewArray(st, elements)
    ELSE LET r == evaluate(values[i], env, st) IN
         IF Failed(r) THEN r
         ELSE evalElements(values, i + 1, env, r.st, Append(elements, r.val))

evaluateArrayExpression(obj, env, st) ==
    evalElements(obj.values, 1, env, st, <<>>)

\* expr.args.map((arg) => evaluate(arg, env)): left to right, from i on.
evalArguments(args, i, env, st, done) ==
    IF i > Len(args) THEN Ret(st, done)
    ELSE LET r == evaluate(args[i], env, st) IN
         IF Failed(r) THEN r
         ELSE evalArguments(args, i + 1, env, r.st, Append(done, r.val))

\* The loop of evaluateFunction that declares the parameters: args[i] is
\* undefined when the call gave fewer arguments.
declareParams(params, i, args, scope, st) ==
    IF i > Len(params) THEN Ret(st, MK_NULL)
    ELSE LET r == declareVariable(st, scope, params[i],
                                  IF i <= Len(args) THEN args[i] ELSE Undefined,
                                  FALSE)
         IN
         IF Failed(r) THEN r
         ELSE declareParams(params, i + 1, args, scope, r.st)

\* The parent of the scope a call of func runs in.
evaluateFunction(func, args, st) ==
    LET scope == Environment(st, func.declarationEnv) IN
    IF Failed(scope) THEN scope
    ELSE LET bound == declareParams(func.params, 1, args, scope.val, scope.st) IN
         IF Failed(bound) THEN bound
         ELSE evalStatements(func.body, 1, scope.val, bound.st, MK_NULL)

\* The native functions of the global environment the model keeps: println.
callNative(fn, args, env, st) ==
    IF fn.call = "println" THEN Ret(st, MK_NULL) ELSE Throw(st, Over)

\* A call that runs the function in a child of the calling scope.
evalCallExpression_dynamic(expr, env, st) ==
    LET args == evalArguments(expr.args, 1, env, st, <<>>) IN
    IF Failed(args) THEN args
    ELSE LET fn == evaluate(expr.callee, env, args.st) IN
         IF Failed(fn) THEN fn
         ELSE IF ~IsUndefined(fn.val) /\ fn.val.type = "native-fn"
         THEN callNative(fn.val, args.val, env, fn.st)
         ELSE IF ~IsUndefined(fn.val) /\ fn.val.type = "fn"
         THEN evaluateFunction([fn.val EXCEPT !.declarationEnv = env], args.val,
                               fn.st)
         ELSE Throw(fn.st, "cannot call value that is not a function")

evalCallExpression(expr, env, st) ==
    LET args == evalArguments(expr.args, 1, env, st, <<>>) IN
    IF Failed(args) THEN args
    ELSE LET fn == evaluate(expr.callee, env, args.st) IN
         IF Failed(fn) THEN fn
         ELSE IF ~IsUndefined(fn.val) /\ fn.val.type = "native-fn"
         THEN callNative(fn.val, args.val, env, fn.st)
         ELSE IF ~IsUndefined(fn.val) /\ fn.val.type = "fn"
         THEN evaluateFunction(fn.val, args.val, fn.st)
         ELSE Throw(fn.st, "cannot call value that is not a function")

\* An evaluation that leaves the right operand alone when the left one
\* decides && or |.
evaluateBinaryExpression_shortCircuit(binaryOperator, env, st) ==
    LET leftHandSide == evaluate(binaryOperator.left, env, st) IN
    IF Failed(leftHandSide) THEN leftHandSide
    ELSE IF /\ ~IsUndefined(leftHandSide.val)
            /\ leftHandSide.val.type = "boolean"
            /\ leftHandSide.val.value = (binaryOperator.operator = "|")
            /\ binaryOperator.operator \in {"&&", "|"}
    THEN Ret(leftHandSide.st, leftHandSide.val)
    ELSE LET rightHandSide == evaluate(binaryOperator.right, env, leftHandSide.st) IN
         IF Failed(rightHandSide) THEN rightHandSide
         ELSE evaluateNumericBinaryExpression(rightHandSide.st, leftHandSide.val,
                                              rightHandSide.val,
                                              binaryOperator.operator)

evaluateBinaryExpression(binaryOperator, env, st) ==
    LET leftHandSide == evaluate(binaryOperator.left, env, st) IN
    IF Failed(leftHandSide) THEN leftHandSide
    ELSE LET rightHandSide == evaluate(binaryOperator.right, env, leftHandSide.st) IN
         IF Failed(rightHandSide) THEN rightHandSide
         ELSE evaluateNumericBinaryExpression(rightHandSide.st, leftHandSide.val,
                                              rightHandSide.val,
                                              binaryOperator.operator)

-----------------------------------------------------------------------------
(* Statements.                                                             *)

evaluateVariableDeclaration(declaration, env, st) ==
    LET value == IF declaration.value # Absent
                 THEN evaluate(declaration.value, env, st)
                 ELSE Ret(st, MK_NULL)
    IN
    IF Failed(value) THEN value
    ELSE declareVariable(value.st, env, declaration.identifier, value.val,
                         declaration.constant)

\* A closure that captures a copy of the environment as it is at the
\* declaration, instead of the environment itself.
evalFunctionDeclaration_byValue(declaration, env, st) ==
    LET copy == Environment(st, st.envs[env].parent) IN
    IF Failed(copy) THEN copy
    ELSE LET s1 == [copy.st EXCEPT
                        !.envs[copy.val].variables = st.envs[env].variables,
                        !.envs[copy.val].constants = st.envs[env].constants]
             fn == [type |-> "fn", name |-> declaration.name,
                    body |-> declaration.body, params |-> declaration.params,
                    declarationEnv |-> copy.val]
         IN
         IF declaration.name = "<anonymous>" THEN Ret(s1, fn)
         ELSE declareVariable(s1, env, declaration.name, fn, TRUE)

evalFunctionDeclaration(declaration, env, st) ==
    LET fn == [type |-> "fn", name |-> declaration.name,
               body |-> declaration.body, params |-> declaration.params,
               declarationEnv |-> env]
    IN
    IF declaration.name = "<anonymous>" THEN Ret(st, fn)
    ELSE declareVariable(st, env, declaration.name, fn, TRUE)

evalBody(body, env, newEnv, st) ==
    LET scope == IF newEnv THEN Environment(st, env) ELSE Ret(st, env) IN
    IF Failed(scope) THEN scope
    ELSE evalStatements(body, 1, scope.val, scope.st, MK_NULL)

\* The parser gives every IfStatement an alternate, the empty list when the
\* source has no else: `else if (declaration.alternate)` is then taken and
\* the empty body yields null.
\* An if statement that takes every truthy test for true.
evalIfStatement_truthy(declaration, env, st) ==
    LET test == evaluate(declaration.test, env, st) IN
    IF Failed(test) THEN test
    ELSE IF IsUndefined(test.val) THEN Throw(test.st, "TypeError")
    ELSE IF Truthy(ValueField(test.val))
    THEN evalBody(declaration.body, env, TRUE, test.st)
    ELSE evalBody(declaration.alternate, env, TRUE, test.st)

evalIfStatement(declaration, env, st) ==
    LET test == evaluate(declaration.test, env, st) IN
    IF Failed(test) THEN test
    ELSE IF IsUndefined(test.val) THEN Throw(test.st, "TypeError")
    ELSE IF StrictlyTrue(ValueField(test.val))
    THEN evalBody(declaration.body, env, TRUE, test.st)
    ELSE evalBody(declaration.alternate, env, TRUE, test.st)

\* while ((test as BooleanValue).value): the test that closes the do-loop.
loopContinues(test) == Truthy(ValueField(test))

\* A loop whose bodies all run in the scope of the loop variable.
forLoop_oneScope(declaration, env, st, fuel) ==
    IF fuel = 0 THEN Throw(st, Over)
    ELSE LET ran == evalBody(declaration.body, env, FALSE, st) IN
         IF Failed(ran) THEN ran
         ELSE LET upd == evaluateAssignment(declaration.update, env, ran.st) IN
              IF Failed(upd) THEN upd
              ELSE LET test == evaluate(declaration.test, env, upd.st) IN
                   IF Failed(test) THEN test
                   ELSE IF IsUndefined(test.val)
                   THEN Throw(test.st, "TypeError")
                   ELSE IF loopContinues(test.val)
                   THEN forLoop(declaration, env, test.st, fuel - 1)
                   ELSE Ret(test.st, MK_NULL)

\* The do { ... } while loop of evalForStatement, entered with its test
\* true; fuel counts the iterations the model still follows.
forLoop(declaration, env, st, fuel) ==
    IF fuel = 0 THEN Throw(st, Over)
    ELSE LET scope == Environment(st, env) IN
         IF Failed(scope) THEN scope
         ELSE LET ran == evalBody(declaration.body, scope.val, FALSE, scope.st) IN
              IF Failed(ran) THEN ran
              ELSE LET upd == evaluateAssignment(declaration.update, env, ran.st) IN
                   IF Failed(upd) THEN upd
                   ELSE LET test == evaluate(declaration.test, env, upd.st) IN
                        IF Failed(test) THEN test
                        ELSE IF IsUndefined(test.val)
                        THEN Throw(test.st, "TypeError")
                        ELSE IF loopContinues(test.val)
                        THEN forLoop(declaration, env, test.st, fuel - 1)
                        ELSE Ret(test.st, MK_NULL)

\* A for statement that starts on every truthy first test.
evalForStatement_truthy(declaration, env0, st) ==
    LET env == Environment(st, env0) IN
    IF Failed(env) THEN env
    ELSE LET init == evaluateVariableDeclaration(declaration.init, env.val, env.st) IN
         IF Failed(init) THEN init
         ELSE LET test == evaluate(declaration.test, env.val, init.st) IN
              IF Failed(test) THEN test
              ELSE IF IsUndefined(test.val) THEN Throw(test.st, "TypeError")
              ELSE IF ~Truthy(ValueField(test.val))
              THEN Ret(test.st, MK_NULL)
              ELSE forLoop(declaration, env.val, test.st, MaxIter)

evalForStatement(declaration, env0, st) ==
    LET env == Environment(st, env0) IN
    IF Failed(env) THEN env
    ELSE LET init == evaluateVariableDeclaration(declaration.init, env.val, env.st) IN
         IF Failed(init) THEN init
         ELSE LET test == evaluate(declaration.test, env.val, init.st) IN
              IF Failed(test) THEN test
              ELSE IF IsUndefined(test.val) THEN Throw(test.st, "TypeError")
              ELSE IF ~StrictlyTrue(ValueField(test.val))
              THEN Ret(test.st, MK_NULL)
              ELSE forLoop(declaration, env.val, test.st, MaxIter)

\* What catch (e) holds: the thrown JavaScript string, which carries no
\* type tag of its own.
Raised(msg) == [type |-> "<raised>", message |-> msg]

\* A try statement whose catch starts from the store the try body was
\* entered with.
evalTryCatchStatement_rollback(env, declaration, st) ==
    LET try_env == Environment(st, env) IN
    IF Failed(try_env) THEN try_env
    ELSE LET catch_env == Environment(try_env.st, env) IN
         IF Failed(catch_env) THEN catch_env
         ELSE LET ran == evalBody(declaration.body, try_env.val, FALSE, catch_env.st) IN
              IF ~Failed(ran) \/ ran.thrown = Over THEN ran
              ELSE LET bound == assignVariable(catch_env.st, env, "error",
                                               Raised(ran.thrown)) IN
                   IF Failed(bound) THEN bound
                   ELSE evalBody(declaration.alternate, catch_env.val, FALSE, bound.st)

evalTryCatchStatement(env, declaration, st) ==
    LET try_env == Environment(st, env) IN
    IF Failed(try_env) THEN try_env
    ELSE LET catch_env == Environment(try_env.st, env) IN
         IF Failed(catch_env) THEN catch_env
         ELSE LET ran == evalBody(declaration.body, try_env.val, FALSE, catch_env.st) IN
              IF ~Failed(ran) \/ ran.thrown = Over THEN ran
              ELSE LET bound == assignVariable(ran.st, env, "error", Raised(ran.thrown)) IN
                   IF Failed(bound) THEN bound
                   ELSE evalBody(declaration.alternate, catch_env.val, FALSE, bound.st)

evaluate(astNode, env, st) ==
    CASE astNode.kind = "Program" -> evaluateProgram(astNode, env, st)
      [] astNode.kind = "NumericLiteral" -> Ret(st, MK_NUMBER(astNode.value))
      [] astNode.kind = "StringLiteral" -> Ret(st, MK_STRING(astNode.value))
      [] astNode.kind = "Identifier" -> evaluateIdentifier(astNode, env, st)
      [] astNode.kind = "ObjectLiteral" -> evaluateObjectExpression(astNode, env, st)
      [] astNode.kind = "ArrayLiteral" -> evaluateArrayExpression(astNode, env, st)
      [] astNode.kind = "CallExpression" -> evalCallExpression(astNode, env, st)
      [] astNode.kind = "AssignmentExpression" -> evaluateAssignment(astNode, env, st)
      [] astNode.kind = "BinaryExpression" -> evaluateBinaryExpression(astNode, env, st)
      [] astNode.kind = "IfStatement" -> evalIfStatement(astNode, env, st)
      [] astNode.kind = "ForStatement" -> evalForStatement(astNode, env, st)
      [] astNode.kind = "MemberExpression" ->
             evaluateMemberExpression(env, Absent, astNode, st)
      [] astNode.kind = "TryCatchStatement" -> evalTryCatchStatement(env, astNode, st)
      [] astNode.kind = "VariableDeclaration" ->
             evaluateVariableDeclaration(astNode, env, st)
      [] astNode.kind = "FunctionDeclaration" ->
             evalFunctionDeclaration(astNode, env, st)

-----------------------------------------------------------------------------
(* The AST nodes the parser builds.                                        *)

Identifier(symbol) == [kind |-> "Identifier", symbol |-> symbol]

NumericLiteral(value) == [value |-> value, kind |-> "NumericLiteral"]

StringLiteral(value) == [value |-> value, kind |-> "StringLiteral"]

BinaryExpression(left, operator, right) ==
    [operator |-> operator, kind |-> "BinaryExpression", left |-> left,
     right |-> right]

AssignmentExpression(assignee, value) ==
    [value |-> value, kind |-> "AssignmentExpression", assignee |-> assignee]

MemberExpression(object, property, computed) ==
    [kind |-> "MemberExpression", property |-> property, object |-> object,
     computed |-> computed]

CallExpression(callee, args) ==
    [kind |-> "CallExpression", args |-> args, callee |-> callee]

ObjectLiteral(properties) == [properties |-> properties, kind |-> "ObjectLiteral"]

Property(key, value) == [value |-> value, key |-> key]

ArrayLiteral(values) == [kind |-> "ArrayLiteral", values |-> values]

VariableDeclaration(constant, identifier, value) ==
    [value |-> value, kind |-> "VariableDeclaration",
     identifier |-> identifier, constant |-> constant]

FunctionDeclaration(name, params, body) ==
    [name |-> name, body |-> body, kind |-> "FunctionDeclaration",
     params |-> params]

IfStatement(test, body, alternate) ==
    [body |-> body, kind |-> "IfStatement", test |-> test,
     alternate |-> alternate]

ForStatement(init, test, update, body) ==
    [body |-> body, kind |-> "ForStatement", test |-> test, update |-> update,
     init |-> init]

TryCatchStatement(body, alternate) ==
    [body |-> body, kind |-> "TryCatchStatement", alternate |-> alternate]

Program(body) == [body |-> body, kind |-> "Program"]

-----------------------------------------------------------------------------
(* The lexer.  Source code is a sequence of characters (one-character      *)
(* strings), as sourceCode.split('') gives it; a token's value is a string.*)

Digits == {"0", "1", "2", "3", "4", "5", "6", "7", "8", "9"}

\* [A-Za-z_]; the lower-case letters stand for all of them.
Letters ==
    {"a", "b", "c", "d", "e", "f", "g", "h", "i", "j", "k", "l", "m", "n",
     "o", "p", "q", "r", "s", "t", "u", "v", "w", "x", "y", "z", "_"}

\* const KEYWORDS: the token type of a reserved word, "" (undefined) for
\* any other identifier.
KEYWORDS(ident) ==
    CASE ident = "let" -> "Let"
      [] ident = "const" -> "Const"
      [] ident = "fn" -> "Fn"
      [] ident = "if" -> "If"
      [] ident = "else" -> "Else"
      [] ident = "for" -> "For"
      [] OTHER -> ""

\* const TOKEN_CHARS: the token type of a one-character symbol, "" for none.
TOKEN_CHARS(char) ==
    CASE char = "(" -> "OpenParen"
      [] char = ")" -> "CloseParen"
      [] char = "{" -> "OpenBrace"
      [] char = "}" -> "CloseBrace"
      [] char = "[" -> "OpenBracket"
      [] char = "]" -> "CloseBracket"
      [] char \in {"+", "-", "*", "%", "/"} -> "BinaryOperator"
      [] char = "<" -> "Lesser"
      [] char = ">" -> "Greater"
      [] char = "." -> "Dot"
      [] char = ";" -> "Semicolon"
      [] char = ":" -> "Colon"
      [] char = "," -> "Comma"
      [] char = "|" -> "Bar"
      [] char = "\n" -> "NewLine"
      [] OTHER -> ""

token(value, type) == [type |-> type, value |-> value]

isAlpha(src, isFirstChar) ==
    IF isFirstChar THEN src \in Letters ELSE src \in Letters \cup Digits

isSkippable(str) == str \in {" ", "\n", "\t", "\r"}

isInt(str) == str \in Digits

\* src[i] of the remaining characters (from 0), "" for undefined.
CharAt(src, i) == IF i + 1 <= Len(src) THEN src[i + 1] ELSE ""

\* src after n calls of src.shift().
Shifted(src, n) == SubSeq(src, n + 1, Len(src))

RECURSIVE prevIdents(_, _)
\* The loop of getPrevIdents over the reversed tokens: how many trailing
\* tokens it takes once k are taken.
prevIdents(tokens, k) ==
    IF k = Len(tokens) THEN k
    ELSE LET tok == tokens[Len(tokens) - k]
             before == Len(tokens) - k - 1
         IN IF \/ tok.type \in {"Identifier", "Dot", "OpenBracket", "CloseBracket"}
               \/ /\ before >= 1
                  /\ tokens[before].type = "OpenBracket"
                  /\ tok.type = "Number"
            THEN prevIdents(tokens, k + 1)
            ELSE k

\* getPrevIdents: the trailing run of tokens that name a place, <<>> for null.
getPrevIdents(tokens) ==
    SubSeq(tokens, Len(tokens) - prevIdents(tokens, 0) + 1, Len(tokens))

Lexed(tokens) == [tokens |-> tokens, failed |-> ""]

\* The lexer did not return: process.exit(1) ("exit"), an uncaught
\* TypeError, or a loop that consumes nothing ("hang").
LexFailed(how) == [tokens |-> <<>>, failed |-> how]

RECURSIVE scanNumber(_, _, _)
\* The number branch's inner loop: digits and at most one period.
scanNumber(num, src, period) ==
    IF src = <<>> THEN [src |-> src, text |-> num]
    ELSE IF src[1] = "." /\ ~period THEN scanNumber(num \o ".", Tail(src), TRUE)
    ELSE IF isInt(src[1]) THEN scanNumber(num \o src[1], Tail(src), period)
    ELSE [src |-> src, text |-> num]

RECURSIVE scanIdent(_, _)
\* while (src.length > 0 && isAlpha(src[0])) ident += src.shift().
scanIdent(ident, src) ==
    IF src # <<>> /\ isAlpha(src[1], FALSE)
    THEN scanIdent(ident \o src[1], Tail(src))
    ELSE [src |-> src, text |-> ident]

RECURSIVE scanString(_, _)
\* The string branch's inner loop, up to the closing quotation mark; a
\* backslash escape is outside the model.
scanString(str, src) ==
    IF src = <<>> THEN [src |-> src, text |-> str]
    ELSE IF src[1] = "\\" THEN [src |-> src, text |-> Over]
    ELSE IF src[1] = "\"" THEN [src |-> Tail(src), text |-> str]
    ELSE scanString(str \o src[1], Tail(src))

RECURSIVE scan(_, _)
\* tokenize's loop: while (src.length > 0), one token per turn.
scan(src, tokens) ==
    IF src = <<>> THEN Lexed(Append(tokens, token("EndOfFile", "EOF")))
    ELSE
    LET char == src[1]
        next == CharAt(src, 1)
        previdents == getPrevIdents(tokens)
        \* case '*', case '/': compound assignment, comments, else default.
        star ==
            IF next = "=" THEN
                IF previdents = <<>> THEN LexFailed("hang")
                ELSE scan(Shifted(src, 2),
                          (Append(tokens, token("=", "Equals")) \o previdents)
                              \o <<token(char, "BinaryOperator")>>)
            ELSE IF char = "/" /\ next \in {"*", "/"} THEN LexFailed(Over)
            ELSE scan(Tail(src), Append(tokens, token(char, TOKEN_CHARS(char))))
        \* case '+': increment and decrement, else falls through.
        plus ==
            IF next = char /\ previdents # <<>> THEN
                scan(Shifted(src, 2),
                     (Append(tokens, token("=", "Equals")) \o previdents)
                         \o <<token(char, "BinaryOperator"), token("1", "Number")>>)
            ELSE star
        \* case '-': the ternary arrow, a unary minus, else falls through.
        minus ==
            IF next = ">" THEN
                scan(Shifted(src, 2), Append(tokens, token("->", "Ternary")))
            ELSE IF next # char /\ previdents = <<>> THEN
                IF tokens = <<>> THEN LexFailed("TypeError")
                ELSE IF tokens[Len(tokens)].type # "CloseParen" THEN
                    scan(Tail(src),
                         tokens \o <<token("0", "Number"),
                                     token(char, "BinaryOperator")>>)
                ELSE plus
            ELSE plus
        \* isInt(char) || (char == '-' && isInt(src[1])), when it returns.
        number == isInt(char) \/ (char = "-" /\ isInt(next))
        symbol == char \notin {"=", "&", "!", "\"", "-", "+", "*", "/"} /\ ~isInt(char)
    IN
    CASE char = "-" /\ Len(src) = 1 -> LexFailed("TypeError")
      [] number ->
             LET num == scanNumber(char, Tail(src), FALSE)
             IN scan(num.src, Append(tokens, token(num.text, "Number")))
      [] char = "=" /\ next = "=" ->
             scan(Shifted(src, 2), Append(tokens, token("==", "EqualsCompare")))
      [] char = "=" /\ next # "=" ->
             scan(Tail(src), Append(tokens, token("=", "Equals")))
      [] char = "&" /\ next = "&" ->
             scan(Shifted(src, 2), Append(tokens, token("&&", "And")))
      [] char = "&" /\ next # "&" ->
             scan(Tail(src), Append(tokens, token("&", "Ampersand")))
      [] char = "!" /\ next = "=" ->
             scan(Shifted(src, 2), Append(tokens, token("!=", "NotEqualsCompare")))
      [] char = "!" /\ next # "=" ->
             scan(Tail(src), Append(tokens, token("!", "Exclamation")))
      [] char = "\"" ->
             LET str == scanString("", Tail(src))
             IN IF str.text = Over THEN LexFailed(Over)
                ELSE scan(str.src, Append(tokens, token(str.text, "String")))
      [] char = "-" /\ Len(src) > 1 /\ ~number -> minus
      [] char = "+" -> plus
      [] char \in {"*", "/"} -> star
      [] symbol /\ TOKEN_CHARS(char) # "" ->
             scan(Tail(src), Append(tokens, token(char, TOKEN_CHARS(char))))
      [] symbol /\ TOKEN_CHARS(char) = "" /\ isAlpha(char, TRUE) ->
             LET ident == scanIdent(char, Tail(src))
                 reserved == KEYWORDS(ident.text)
             IN scan(ident.src,
                     Append(tokens, token(ident.text,
                                          IF reserved # "" THEN reserved
                                          ELSE "Identifier")))
      [] symbol /\ TOKEN_CHARS(char) = "" /\ isSkippable(char) ->
             scan(Tail(src), tokens)
      [] OTHER -> LexFailed("exit")

\* tokenize(sourceCode): the tokens of the source, the last one EOF.
tokenize(sourceCode) == scan(sourceCode, <<>>)

-----------------------------------------------------------------------------
(* The parser: recursive descent over this.tokens, which it shifts as it   *)
(* goes.  Each method takes the tokens left and gives its node with the    *)
(* tokens left after it.                                                   *)

Parsed(node, tokens) == [node |-> node, tokens |-> tokens, failed |-> ""]

\* The parser did not return: a thrown error nobody catches ("throw") or
\* process.exit(1) ("exit").
ParseFailed(how) == [node |-> Absent, tokens |-> <<>>, failed |-> how]

NotParsed(p) == p.failed # ""

RECURSIVE shiftNewLines(_)
\* while (token.type == TokenType.NewLine) this.shift().
shiftNewLines(tokens) ==
    IF tokens # <<>> /\ tokens[1].type = "NewLine"
    THEN shiftNewLines(Tail(tokens))
    ELSE tokens

at(tokens) == shiftNewLines(tokens)[1]

notEOF(tokens) == at(tokens).type # "EOF"

eat(tokens) == [token |-> at(tokens), tokens |-> Tail(shiftNewLines(tokens))]

\* expect(type, err): the token eaten, as the node of the result.
expect(tokens, type) ==
    LET prev == eat(tokens)
    IN IF prev.token.type # type THEN ParseFailed("exit")
       ELSE Parsed(prev.token, prev.tokens)

DigitChars == <<"0", "1", "2", "3", "4", "5", "6", "7", "8", "9">>

RECURSIVE Numeral(_)
\* The decimal text of an integer.
Numeral(n) ==
    IF n < 0 THEN "-" \o Numeral(-n)
    ELSE IF n < 10 THEN DigitChars[n + 1]
    ELSE Numeral(n \div 10) \o DigitChars[(n % 10) + 1]

\* The numbers whose text the model reads back.
MaxNumeral == 20

IsNumeral(text) == \E n \in -MaxNumeral..MaxNumeral : Numeral(n) = text

\* parseFloat(text), for the text of an integer in range.
parseFloat(text) == CHOOSE n \in -MaxNumeral..MaxNumeral : Numeral(n) = text

RECURSIVE parse(_, _, _)

\* parseIfStatement and parseForStatement are outside the model.
parseStatement(tokens) == parse("parseStatement", Absent, tokens)

\* while (this.notEOF() && this.at().type !== TokenType.CloseBrace).
blockBody(body, tokens) == parse("blockBody", body, tokens)

parseBlockStatement(tokens) == parse("parseBlockStatement", Absent, tokens)

parseFunctionDeclaration(tokens) == parse("parseFunctionDeclaration", Absent, tokens)

parseVariableDeclaration(tokens) == parse("parseVariableDeclaration", Absent, tokens)

\* parseExpression with the branches of the ternary taken the other way round.
parseExpression_swapped(tokens) ==
    parse("parseExpression_swapped", Absent, tokens)

\* The ternary sugar: test -> body | alternate becomes a call of an
\* anonymous function whose body is the if statement.
parseExpression(tokens) == parse("parseExpression", Absent, tokens)

parseAssignmentExpression(tokens) == parse("parseAssignmentExpression", Absent, tokens)

\* An object literal in the source text is outside the model.
parseObjectExpression(tokens) == parse("parseObjectExpression", Absent, tokens)

\* while (this.notEOF() && this.at().type != TokenType.CloseBracket).
arrayValues(values, tokens) == parse("arrayValues", values, tokens)

parseArrayExpression(tokens) == parse("parseArrayExpression", Absent, tokens)

parseTryCatchExpression(tokens) == parse("parseTryCatchExpression", Absent, tokens)

\* while (this.at().type == TokenType.And || this.at().type == TokenType.Bar).
andRest(left, tokens) == parse("andRest", left, tokens)

parseAndStatement(tokens) == parse("parseAndStatement", Absent, tokens)

\* while (['+', '-', '==', '!=', '<', '>'].includes(this.at().value)).
additiveRest(left, tokens) == parse("additiveRest", left, tokens)

parseAdditiveExpression(tokens) == parse("parseAdditiveExpression", Absent, tokens)

\* while (['/', '*', '%'].includes(this.at().value)).
multiplicativeRest(left, tokens) == parse("multiplicativeRest", left, tokens)

parseMultiplicativeExpression(tokens) == parse("parseMultiplicativeExpression", Absent, tokens)

parseCallMemberExpression(tokens) == parse("parseCallMemberExpression", Absent, tokens)

parseCallExpression(caller, tokens) == parse("parseCallExpression", caller, tokens)

\* The node of the result is the list of the arguments.
parseArguments(tokens) == parse("parseArguments", Absent, tokens)

\* while (this.at().type === TokenType.Comma && this.eat()).
argumentsRest(args, tokens) == parse("argumentsRest", args, tokens)

parseArgumentsList(tokens) == parse("parseArgumentsList", Absent, tokens)

\* while (at().type === Dot || at().type === OpenBracket): the suffixes of
\* a member expression.
memberRest(object, tokens) == parse("memberRest", object, tokens)

parseMemberExpression(tokens) == parse("parseMemberExpression", Absent, tokens)

\* The default of the switch: every other token ends the process.
parsePrimaryExpression(tokens) == parse("parsePrimaryExpression", Absent, tokens)

\* class Parser: the bodies of its methods, one arm each.  An arm calls the
\* other methods by their names above; node is the first argument of the
\* methods that take one (the caller of a call, the list a loop has built).
parse(method, node, tokens) ==
    CASE method = "parseStatement" ->
           (LET type == at(tokens).type
            IN CASE type \in {"Let", "Const"} -> parseVariableDeclaration(tokens)
                 [] type = "Fn" -> parseFunctionDeclaration(tokens)
                 [] type \in {"If", "For"} -> ParseFailed(Over)
                 [] OTHER -> parseExpression(tokens))
      [] method = "blockBody" ->
           (LET body == node
            IN
            IF notEOF(tokens) /\ at(tokens).type # "CloseBrace" THEN
                LET stmt == parseStatement(tokens)
                IN IF NotParsed(stmt) THEN stmt
                   ELSE blockBody(Append(body, stmt.node), stmt.tokens)
            ELSE Parsed(body, tokens))
      [] method = "parseBlockStatement" ->
           (LET open == expect(tokens, "OpenBrace")
                body == blockBody(<<>>, open.tokens)
                close == expect(body.tokens, "CloseBrace")
            IN IF NotParsed(open) THEN open
               ELSE IF NotParsed(body) THEN body
               ELSE IF NotParsed(close) THEN close
               ELSE Parsed(body.node, close.tokens))
      [] method = "parseFunctionDeclaration" ->
           (LET fn == eat(tokens)
                named == at(fn.tokens).type = "Identifier"
                name == IF named THEN at(fn.tokens).value ELSE "<anonymous>"
                args == parseArguments(IF named THEN eat(fn.tokens).tokens ELSE fn.tokens)
                body == parseBlockStatement(args.tokens)
            IN IF NotParsed(args) THEN args
               ELSE IF \E i \in 1..Len(args.node) : args.node[i].kind # "Identifier"
               THEN ParseFailed("throw")
               ELSE IF NotParsed(body) THEN body
               ELSE Parsed(FunctionDeclaration(
                               name, [i \in 1..Len(args.node) |-> args.node[i].symbol],
                               body.node),
                           body.tokens))
      [] method = "parseVariableDeclaration" ->
           (LET keyword == eat(tokens)
                isConst == keyword.token.type = "Const"
                identifier == expect(keyword.tokens, "Identifier")
                assign == expect(identifier.tokens, "Equals")
                value == parseExpression(assign.tokens)
                semicolon == expect(value.tokens, "Semicolon")
            IN IF NotParsed(identifier) THEN identifier
               ELSE IF at(identifier.tokens).type = "Semicolon" THEN
                   IF isConst THEN ParseFailed("throw")
                   ELSE Parsed(VariableDeclaration(FALSE, identifier.node.value, Absent),
                               eat(identifier.tokens).tokens)
               ELSE IF NotParsed(assign) THEN assign
               ELSE IF NotParsed(value) THEN value
               ELSE IF NotParsed(semicolon) THEN semicolon
               ELSE Parsed(VariableDeclaration(isConst, identifier.node.value, value.node),
                           semicolon.tokens))
      [] method = "parseExpression" ->
           (LET data == parseAssignmentExpression(tokens)
                expr == parseExpression(eat(data.tokens).tokens)
                ifStmt == IfStatement(data.node, <<expr.node.left>>, <<expr.node.right>>)
            IN IF NotParsed(data) THEN data
               ELSE IF at(data.tokens).type # "Ternary" THEN data
               ELSE IF data.node.kind \notin {"BinaryExpression", "Identifier"}
               THEN ParseFailed("throw")
               ELSE IF NotParsed(expr) THEN expr
               ELSE IF expr.node.kind # "BinaryExpression" THEN ParseFailed("throw")
               ELSE IF expr.node.operator # "|" THEN ParseFailed("throw")
               ELSE Parsed(CallExpression(
                               FunctionDeclaration("<anonymous>", <<>>, <<ifStmt>>), <<>>),
                           expr.tokens))
      [] method = "parseExpression_swapped" ->
           (LET data == parseAssignmentExpression(tokens)
                expr == parseExpression(eat(data.tokens).tokens)
                ifStmt == IfStatement(data.node, <<expr.node.right>>, <<expr.node.left>>)
            IN IF NotParsed(data) THEN data
               ELSE IF at(data.tokens).type # "Ternary" THEN data
               ELSE IF data.node.kind \notin {"BinaryExpression", "Identifier"}
               THEN ParseFailed("throw")
               ELSE IF NotParsed(expr) THEN expr
               ELSE IF expr.node.kind # "BinaryExpression" THEN ParseFailed("throw")
               ELSE IF expr.node.operator # "|" THEN ParseFailed("throw")
               ELSE Parsed(CallExpression(
                               FunctionDeclaration("<anonymous>", <<>>, <<ifStmt>>), <<>>),
                           expr.tokens))
      [] method = "parseAssignmentExpression" ->
           (LET left == parseObjectExpression(tokens)
                value == parseAssignmentExpression(eat(left.tokens).tokens)
            IN IF NotParsed(left) THEN left
               ELSE IF at(left.tokens).type # "Equals" THEN left
               ELSE IF NotParsed(value) THEN value
               ELSE Parsed(AssignmentExpression(left.node, value.node), value.tokens))
      [] method = "parseObjectExpression" ->
           (IF at(tokens).type # "OpenBrace" THEN parseArrayExpression(tokens)
            ELSE ParseFailed(Over))
      [] method = "arrayValues" ->
           (LET values == node
            IN
            IF notEOF(tokens) /\ at(tokens).type # "CloseBracket" THEN
                LET value == parseExpression(tokens)
                    comma == expect(value.tokens, "Comma")
                IN IF NotParsed(value) THEN value
                   ELSE IF at(value.tokens).type = "CloseBracket"
                   THEN arrayValues(Append(values, value.node), value.tokens)
                   ELSE IF NotParsed(comma) THEN comma
                   ELSE arrayValues(Append(values, value.node), comma.tokens)
            ELSE Parsed(values, tokens))
      [] method = "parseArrayExpression" ->
           (IF at(tokens).type # "OpenBracket" THEN parseTryCatchExpression(tokens)
            ELSE LET values == arrayValues(<<>>, eat(tokens).tokens)
                     close == expect(values.tokens, "CloseBracket")
                 IN IF NotParsed(values) THEN values
                    ELSE IF NotParsed(close) THEN close
                    ELSE Parsed(ArrayLiteral(values.node), close.tokens))
      [] method = "parseTryCatchExpression" ->
           (IF at(tokens).type # "Identifier" \/ at(tokens).value # "try"
            THEN parseAndStatement(tokens)
            ELSE LET body == parseBlockStatement(eat(tokens).tokens)
                     alternate == parseBlockStatement(eat(body.tokens).tokens)
                 IN IF NotParsed(body) THEN body
                    ELSE IF \/ at(body.tokens).type # "Identifier"
                            \/ at(body.tokens).value # "catch"
                    THEN ParseFailed("throw")
                    ELSE IF NotParsed(alternate) THEN alternate
                    ELSE Parsed(TryCatchStatement(body.node, alternate.node),
                                alternate.tokens))
      [] method = "andRest" ->
           (LET left == node
            IN
            IF at(tokens).type \in {"And", "Bar"} THEN
                LET operator == eat(tokens)
                    right == parseExpression(operator.tokens)
                IN IF NotParsed(right) THEN right
                   ELSE andRest(BinaryExpression(left, operator.token.value, right.node),
                                right.tokens)
            ELSE Parsed(left, tokens))
      [] method = "parseAndStatement" ->
           (LET left == parseAdditiveExpression(tokens)
                operator == eat(left.tokens)
                right == parseAdditiveExpression(operator.tokens)
            IN IF NotParsed(left) THEN left
               ELSE IF at(left.tokens).value \notin {"&&", "|"} THEN left
               ELSE IF NotParsed(right) THEN right
               ELSE andRest(BinaryExpression(left.node, operator.token.value, right.node),
                            right.tokens))
      [] method = "additiveRest" ->
           (LET left == node
            IN
            IF at(tokens).value \in {"+", "-", "==", "!=", "<", ">"} THEN
                LET operator == eat(tokens)
                    right == parseMultiplicativeExpression(operator.tokens)
                IN IF NotParsed(right) THEN right
                   ELSE additiveRest(
                            BinaryExpression(left, operator.token.value, right.node),
                            right.tokens)
            ELSE Parsed(left, tokens))
      [] method = "parseAdditiveExpression" ->
           (LET left == parseMultiplicativeExpression(tokens)
            IN IF NotParsed(left) THEN left ELSE additiveRest(left.node, left.tokens))
      [] method = "multiplicativeRest" ->
           (LET left == node
            IN
            IF at(tokens).value \in {"/", "*", "%"} THEN
                LET operator == eat(tokens)
                    right == parseCallMemberExpression(operator.tokens)
                IN IF NotParsed(right) THEN right
                   ELSE multiplicativeRest(
                            BinaryExpression(left, operator.token.value, right.node),
                            right.tokens)
            ELSE Parsed(left, tokens))
      [] method = "parseMultiplicativeExpression" ->
           (LET left == parseCallMemberExpression(tokens)
            IN IF NotParsed(left) THEN left
               ELSE multiplicativeRest(left.node, left.tokens))
      [] method = "parseCallMemberExpression" ->
           (LET member == parseMemberExpression(tokens)
            IN IF NotParsed(member) THEN member
               ELSE IF at(member.tokens).type = "OpenParen"
               THEN parseCallExpression(member.node, member.tokens)
               ELSE member)
      [] method = "parseCallExpression" ->
           (LET caller == node
            IN
            LET args == parseArguments(tokens)
                callExpr == CallExpression(caller, args.node)
            IN IF NotParsed(args) THEN args
               ELSE IF at(args.tokens).type = "OpenParen"
               THEN parseCallExpression(callExpr, args.tokens)
               ELSE Parsed(callExpr, args.tokens))
      [] method = "parseArguments" ->
           (LET open == expect(tokens, "OpenParen")
                args == IF at(open.tokens).type = "CloseParen"
                        THEN Parsed(<<>>, open.tokens)
                        ELSE parseArgumentsList(open.tokens)
                close == expect(args.tokens, "CloseParen")
            IN IF NotParsed(open) THEN open
               ELSE IF NotParsed(args) THEN args
               ELSE IF NotParsed(close) THEN close
               ELSE Parsed(args.node, close.tokens))
      [] method = "argumentsRest" ->
           (LET args == node
            IN
            IF at(tokens).type = "Comma" THEN
                LET arg == parseAssignmentExpression(eat(tokens).tokens)
                IN IF NotParsed(arg) THEN arg
                   ELSE argumentsRest(Append(args, arg.node), arg.tokens)
            ELSE Parsed(args, tokens))
      [] method = "parseArgumentsList" ->
           (LET first == parseExpression(tokens)
            IN IF NotParsed(first) THEN first
               ELSE argumentsRest(<<first.node>>, first.tokens))
      [] method = "memberRest" ->
           (LET object == node
            IN
            IF at(tokens).type \in {"Dot", "OpenBracket"} THEN
                LET operator == eat(tokens)
                    name == parsePrimaryExpression(operator.tokens)
                    index == parseExpression(operator.tokens)
                    close == expect(index.tokens, "CloseBracket")
                IN IF operator.token.type = "Dot" THEN
                       IF NotParsed(name) THEN name
                       ELSE IF name.node.kind # "Identifier" THEN ParseFailed("throw")
                       ELSE memberRest(MemberExpression(object, name.node, FALSE),
                                       name.tokens)
                   ELSE IF NotParsed(index) THEN index
                   ELSE IF NotParsed(close) THEN close
                   ELSE memberRest(MemberExpression(object, index.node, TRUE),
                                   close.tokens)
            ELSE Parsed(object, tokens))
      [] method = "parseMemberExpression" ->
           (LET object == parsePrimaryExpression(tokens)
            IN IF NotParsed(object) THEN object
               ELSE memberRest(object.node, object.tokens))
      [] method = "parsePrimaryExpression" ->
           (LET tk == eat(tokens)
                value == parseExpression(tk.tokens)
                close == expect(value.tokens, "CloseParen")
            IN CASE tk.token.type = "Identifier" ->
                        Parsed(Identifier(tk.token.value), tk.tokens)
                 [] tk.token.type = "Number" ->
                        IF IsNumeral(tk.token.value)
                        THEN Parsed(NumericLiteral(parseFloat(tk.token.value)), tk.tokens)
                        ELSE ParseFailed(Over)
                 [] tk.token.type = "String" ->
                        Parsed(StringLiteral(tk.token.value), tk.tokens)
                 [] tk.token.type = "OpenParen" ->
                        IF NotParsed(value) THEN value
                        ELSE IF NotParsed(close) THEN close
                        ELSE Parsed(value.node, close.tokens)
                 [] OTHER -> ParseFailed("exit"))

RECURSIVE programBody(_, _)
\* while (this.notEOF()) program.body.push(this.parseStatement()).
programBody(body, tokens) ==
    IF notEOF(tokens) THEN
        LET stmt == parseStatement(tokens)
        IN IF NotParsed(stmt) THEN stmt
           ELSE programBody(Append(body, stmt.node), stmt.tokens)
    ELSE Parsed(Program(body), tokens)

\* produceAST(sourceCode): the program of the source, when the lexer and
\* the parser return.
produceAST(sourceCode) ==
    LET lexed == tokenize(sourceCode)
    IN IF lexed.failed # "" THEN ParseFailed(lexed.failed)
       ELSE programBody(<<>>, lexed.tokens)

-----------------------------------------------------------------------------
(* The global environment and the read-eval-print loop.                    *)

EmptyStore ==
    [envs |-> [i \in 1..MaxEnvs |-> FreeEnv], heap |-> [h \in 1..MaxHeap |-> FreeSlot]]

\* createGlobalEnvironment: the bindings the evaluator itself relies on
\* (true, false, null, error, args) and println of the native library.
createGlobalEnvironment ==
    LET env == Environment(EmptyStore, 0)
        s1 == declareVariable(env.st, env.val, "true", MK_BOOL(TRUE), TRUE).st
        s2 == declareVariable(s1, env.val, "false", MK_BOOL(FALSE), TRUE).st
        s3 == declareVariable(s2, env.val, "null", MK_NULL, TRUE).st
        s4 == declareVariable(s3, env.val, "error", MK_NULL, FALSE).st
        args == NewArray(s4, <<>>)
        s5 == declareVariable(args.st, env.val, "args", args.val, TRUE).st
    IN declareVariable(s5, env.val, "println", MK_NATIVE_FN("println"), TRUE).st

\* The environment the REPL evaluates in: the global one.
GlobalEnv == 1

Range(f) == {f[k] : k \in DOMAIN f}

\* The scope the running program is in: the innermost open block.
Top == cur[Len(cur)]

Store == [envs |-> envs, heap |-> heap]

\* What the host keeps alive: everything reachable from the global
\* environment, the open blocks and the value just printed, through parent
\* links, captured environments and the references arrays and objects hold.
RECURSIVE Reachable(_, _, _)
Reachable(st, E, H) ==
    LET V == UNION ({Range(st.envs[e].variables) : e \in E}
                    \cup {Range(st.heap[h].properties) : h \in H}
                    \cup {Range(st.heap[h].elements) : h \in H})
        E2 == E \cup ({st.envs[e].parent : e \in E} \ {0})
                \cup {v.declarationEnv : v \in {w \in V : w.type = "fn"}}
        H2 == H \cup {v.ref : v \in {w \in V : w.type \in {"object", "array"}}}
    IN IF E2 = E /\ H2 = H THEN [envs |-> E, heap |-> H]
       ELSE Reachable(st, E2, H2)

\* The store with everything freed that nothing references any more: the
\* host's garbage collector, run between two statements.  The roots are
\* the global environment, the open blocks and the value just printed.
Collect ==
    LET live == Reachable(Store,
                    Range(cur) \cup {GlobalEnv}
                        \cup (IF result.type = "fn" THEN {result.declarationEnv}
                              ELSE {}),
                    IF result.type \in {"object", "array"} THEN {result.ref}
                    ELSE {})
    IN [envs |-> [e \in 1..MaxEnvs |-> IF e \in live.envs THEN envs[e] ELSE FreeEnv],
        heap |-> [h \in 1..MaxHeap |-> IF h \in live.heap THEN heap[h] ELSE FreeSlot]]

\* result = evaluate(stmt, scope): one statement of the running program,
\* in its current scope.  A failure unwinds every open block: the REPL
\* catches it, prints it and reads the next input for the global scope.
Run(kind, node) ==
    \E r \in {evaluate(node, Top, Collect)} :
    /\ r.thrown # Over
    /\ envs' = r.st.envs
    /\ heap' = r.st.heap
    /\ result' = r.val
    /\ thrown' = r.thrown
    /\ cur' = IF Failed(r) THEN <<GlobalEnv>> ELSE cur
    /\ last' = [env |-> Top, kind |-> kind, node |-> node]
    /\ UNCHANGED timeoutIds

\* evalBody entered for a block whose statements the program is about to
\* run: scope = new Environment(env).
EnterBlockWithin(depth) ==
    /\ Len(cur) <= depth
    /\ \E scope \in {Environment(Collect, Top)} :
       /\ ~Failed(scope)
       /\ envs' = scope.st.envs
       /\ heap' = scope.st.heap
       /\ cur' = Append(cur, scope.val)
       /\ last' = [env |-> Top, kind |-> "EnterBlock", node |-> Absent]
    /\ UNCHANGED <<result, thrown, timeoutIds>>

EnterBlock == EnterBlockWithin(MaxDepth)

\* evalBody returns: the block's scope is left.
ExitBlock ==
    /\ Len(cur) > 1
    /\ cur' = SubSeq(cur, 1, Len(cur) - 1)
    /\ last' = [env |-> Top, kind |-> "ExitBlock", node |-> Absent]
    /\ UNCHANGED <<envs, heap, result, thrown, timeoutIds>>

\* The process is still reading input: no line has ended it.
Running == IF "failed" \in DOMAIN last THEN last.failed = "" ELSE TRUE

\* repl: one turn of the loop on a line of input, evaluated in the global
\* scope.  produceAST is called outside the try: when the lexer or the
\* parser does not return, the process ends with the store as it is.  The
\* lines hold none of the words transcribe rewrites.
Repl(input) ==
    /\ Running
    /\ cur = <<GlobalEnv>>
    /\ UNCHANGED timeoutIds
    /\ \E program \in {produceAST(input)} :
       /\ program.failed # Over
       /\ IF NotParsed(program)
          THEN /\ last' = [env |-> GlobalEnv, kind |-> "Program", node |-> Absent,
                           failed |-> program.failed, input |-> input]
               /\ UNCHANGED <<envs, heap, cur, result, thrown>>
          ELSE \E r \in {evaluate(program.node, GlobalEnv, Collect)} :
               /\ r.thrown # Over
               /\ envs' = r.st.envs
               /\ heap' = r.st.heap
               /\ result' = r.val
               /\ thrown' = r.thrown
               /\ cur' = cur
               /\ last' = [env |-> GlobalEnv, kind |-> "Program",
                           node |-> program.node, failed |-> "", input |-> input]

-----------------------------------------------------------------------------
(* Closures: the programs the REPL is given.                               *)

\* fn get() { x }: reads the free variable x.
GetDeclaration == FunctionDeclaration("get", <<>>, <<Identifier("x")>>)

\* fn rec(n) { if (n < 1) { rec(n + 1) } n }: calls itself once, then
\* yields its own parameter.
RecDeclaration ==
    FunctionDeclaration("rec", <<"n">>,
        <<IfStatement(BinaryExpression(Identifier("n"), "<", NumericLiteral(1)),
                      <<CallExpression(Identifier("rec"),
                            <<BinaryExpression(Identifier("n"), "+",
                                               NumericLiteral(1))>>)>>,
                      <<>>),
          Identifier("n")>>)

\* fn mk() { let x = 2; fn inner() { x } }: yields a closure over the
\* scope of the call that made it.
MkDeclaration ==
    FunctionDeclaration("mk", <<>>,
        <<VariableDeclaration(FALSE, "x", NumericLiteral(2)),
          FunctionDeclaration("inner", <<>>, <<Identifier("x")>>)>>)

\* let x = 1; let y; fn get() { x }  fn rec(n) { ... }  fn mk() { ... }
ClosurePrelude ==
    Program(<<VariableDeclaration(FALSE, "x", NumericLiteral(1)),
              VariableDeclaration(FALSE, "y", Absent),
              GetDeclaration,
              RecDeclaration,
              MkDeclaration>>)

Literals == {NumericLiteral(1), NumericLiteral(2)}

\* x = 1, x = 2, y = get, y = mk()
Assignments ==
    {AssignmentExpression(Identifier("x"), v) : v \in Literals}
        \cup {AssignmentExpression(Identifier("y"), Identifier("get")),
              AssignmentExpression(Identifier("y"),
                                   CallExpression(Identifier("mk"), <<>>))}

\* get(), y(), rec(0)
Calls ==
    {CallExpression(Identifier(f), <<>>) : f \in {"get", "y"}}
        \cup {CallExpression(Identifier("rec"), <<NumericLiteral(0)>>)}

\* The REPL after it evaluated the program prelude in the global scope.
Started(prelude) ==
    \E r \in {evaluate(prelude, GlobalEnv, createGlobalEnvironment)} :
    /\ envs = r.st.envs
    /\ heap = r.st.heap
    /\ cur = <<GlobalEnv>>
    /\ result = r.val
    /\ thrown = r.thrown
    /\ last = [env |-> GlobalEnv, kind |-> "Program", node |-> Absent]
    /\ timeoutIds = <<>>

Init == Started(ClosurePrelude)

\* let x = 1 or let x = 2, in the current scope.
ReplVariableDeclaration ==
    \E value \in Literals :
        Run("VariableDeclaration", VariableDeclaration(FALSE, "x", value))

ReplAssignment == \E node \in Assignments : Run("AssignmentExpression", node)

ReplCall == \E node \in Calls : Run("CallExpression", node)

Next ==
    \/ ReplVariableDeclaration
    \/ ReplAssignment
    \/ ReplCall
    \/ EnterBlock
    \/ ExitBlock

Spec == Init /\ [][Next]_vars

-----------------------------------------------------------------------------
(* Declarations and assignments: the programs the REPL is given.           *)

\* let x = 1; const k = 1;
ScopePrelude ==
    Program(<<VariableDeclaration(FALSE, "x", NumericLiteral(1)),
              VariableDeclaration(TRUE, "k", NumericLiteral(1))>>)

InitScope == Started(ScopePrelude)

\* const x = 2 shadows the global variable x by a constant; let k = 2
\* shadows the global constant k by a variable.
ScopeDeclare ==
    \E d \in {<<TRUE, "x">>, <<FALSE, "k">>} :
        Run("VariableDeclaration", VariableDeclaration(d[1], d[2], NumericLiteral(2)))

\* x = 3, k = 3, and z = 3 for a name no scope defines.
ScopeAssign ==
    \E name \in {"x", "k", "z"} :
        Run("AssignmentExpression",
            AssignmentExpression(Identifier(name), NumericLiteral(3)))

ScopeLookup == \E name \in {"x", "k"} : Run("Identifier", Identifier(name))

ScopeEnterBlock == EnterBlockWithin(MaxNest)

NextScope ==
    \/ ScopeDeclare
    \/ ScopeAssign
    \/ ScopeLookup
    \/ ScopeEnterBlock
    \/ ExitBlock

SpecScope == InitScope /\ [][NextScope]_vars

-----------------------------------------------------------------------------
(* Paths into objects: the programs the REPL is given.                     *)

\* const a = {"x": 1, "b": {"c": 1, "e": {"f": 1}}}; let k = "x";
PathPrelude ==
    Program(<<VariableDeclaration(TRUE, "a",
                  ObjectLiteral(<<Property("x", NumericLiteral(1)),
                                  Property("b", ObjectLiteral(
                                      <<Property("c", NumericLiteral(1)),
                                        Property("e", ObjectLiteral(
                                            <<Property("f", NumericLiteral(1))>>))>>))>>)),
              VariableDeclaration(FALSE, "k", StringLiteral("x"))>>)

InitPath == Started(PathPrelude)

Dot(object, name) == MemberExpression(object, Identifier(name), FALSE)

\* The path of each shape from the expression base:
\*   base.x   base.b.c   base.b.e.f   base["x"]   base[k]   base[0]
PathShapes == {"dot", "deep2", "deep3", "string", "ident"}

PathFrom(shape, base) ==
    CASE shape = "dot" -> Dot(base, "x")
      [] shape = "deep2" -> Dot(Dot(base, "b"), "c")
      [] shape = "deep3" -> Dot(Dot(Dot(base, "b"), "e"), "f")
      [] shape = "string" -> MemberExpression(base, StringLiteral("x"), TRUE)
      [] shape = "ident" -> MemberExpression(base, Identifier("k"), TRUE)
      [] shape = "index" -> MemberExpression(base, NumericLiteral(0), TRUE)

Written == {NumericLiteral(5), NumericLiteral(6)}

\* a.x = 5, a.b.c = 6, a["x"] = 5, a[k] = 6, ...
PathWrite ==
    \E shape \in PathShapes, value \in Written :
        Run("AssignmentExpression",
            AssignmentExpression(PathFrom(shape, Identifier("a")), value))

\* a.x, a.b.c, a["x"], a[k], ...
PathRead ==
    \E shape \in PathShapes :
        Run("MemberExpression", PathFrom(shape, Identifier("a")))

NextPath == PathWrite \/ PathRead

SpecPath == InitPath /\ [][NextPath]_vars

-----------------------------------------------------------------------------
(* Aliases of one array or object: the programs the REPL is given.         *)

\* const a = {"x": 1}; let b = a; let c; c = a; let w = [a];
\* let r = [1]; let h = {"r": r}; fn put(t, v) { t.x = v }
AliasPrelude ==
    Program(<<VariableDeclaration(TRUE, "a",
                  ObjectLiteral(<<Property("x", NumericLiteral(1))>>)),
              VariableDeclaration(FALSE, "b", Identifier("a")),
              VariableDeclaration(FALSE, "c", Absent),
              AssignmentExpression(Identifier("c"), Identifier("a")),
              VariableDeclaration(FALSE, "w", ArrayLiteral(<<Identifier("a")>>)),
              VariableDeclaration(FALSE, "r", ArrayLiteral(<<NumericLiteral(1)>>)),
              VariableDeclaration(FALSE, "h",
                  ObjectLiteral(<<Property("r", Identifier("r"))>>)),
              FunctionDeclaration("put", <<"t", "v">>,
                  <<AssignmentExpression(Dot(Identifier("t"), "x"),
                                         Identifier("v"))>>)>>)

InitAlias == Started(AliasPrelude)

\* The expressions that name the object: by declaration, by a declaration
\* from another name, by assignment, as the element of an array literal.
ObjectNames ==
    {Identifier("a"), Identifier("b"), Identifier("c"),
     MemberExpression(Identifier("w"), NumericLiteral(0), TRUE)}

\* The expressions that name the array: by declaration, as the property of
\* an object literal.
ArrayNames == {Identifier("r"), Dot(Identifier("h"), "r")}

\* b.x = 5, w[0]["x"] = 6, h.r[0] = 5, ...: a write through a name of the
\* object or of the array.
AliasWrite ==
    \E value \in Written :
        \/ \E shape \in {"dot", "string"}, base \in ObjectNames :
               Run("AssignmentExpression",
                   AssignmentExpression(PathFrom(shape, base), value))
        \/ \E base \in ArrayNames :
               Run("AssignmentExpression",
                   AssignmentExpression(PathFrom("index", base), value))

\* a.x, c["x"], r[0], ...: a read through a name of the object or of the
\* array.
AliasRead ==
    \/ \E shape \in {"dot", "string"}, base \in ObjectNames :
           Run("MemberExpression", PathFrom(shape, base))
    \/ \E base \in ArrayNames :
           Run("MemberExpression", PathFrom("index", base))

\* put(b, 5): the object passed as an argument, written through the
\* parameter.
AliasCall ==
    \E base \in ObjectNames, value \in Written :
        Run("CallExpression", CallExpression(Identifier("put"), <<base, value>>))

NextAlias == AliasWrite \/ AliasRead \/ AliasCall

SpecAlias == InitAlias /\ [][NextAlias]_vars

-----------------------------------------------------------------------------
(* Tests of if and for statements: the programs the REPL is given.         *)

\* The values a test evaluates to, by the expression that yields each.
TestExpr(test) ==
    CASE test = "true" -> Identifier("true")
      [] test = "false" -> Identifier("false")
      [] test = "null" -> Identifier("null")
      [] test = "one" -> NumericLiteral(1)
      [] test = "zero" -> NumericLiteral(0)
      [] test = "string" -> StringLiteral("a")
      [] test = "empty" -> StringLiteral("")
      [] test = "native" -> Identifier("println")
      [] test = "object" -> Identifier("o")
      [] test = "array" -> Identifier("args")
      [] test = "fn" -> Identifier("f")

Tests ==
    {"true", "false", "null", "one", "zero", "string", "empty", "object",
     "array", "fn", "native"}

Mark(name, value) ==
    AssignmentExpression(Identifier(name), NumericLiteral(value))

\* let hit = 0; const o = {}; fn f() { }
IfPrelude ==
    Program(<<VariableDeclaration(FALSE, "hit", NumericLiteral(0)),
              VariableDeclaration(TRUE, "o", ObjectLiteral(<<>>)),
              FunctionDeclaration("f", <<>>, <<>>)>>)

InitIf == Started(IfPrelude)

\* if (t) { hit = 1 }: the parser gives the statement an empty alternate.
IfOnly ==
    \E t \in Tests :
        Run("IfStatement", IfStatement(TestExpr(t), <<Mark("hit", 1)>>, <<>>))

\* if (t1) { hit = 1 } else if (t2) { hit = 2 } else { hit = 3 }
IfElse ==
    \E t1 \in Tests, t2 \in Tests :
        Run("IfStatement",
            IfStatement(TestExpr(t1), <<Mark("hit", 1)>>,
                <<IfStatement(TestExpr(t2), <<Mark("hit", 2)>>,
                              <<Mark("hit", 3)>>)>>))

\* hit = 0
IfReset == Run("AssignmentExpression", Mark("hit", 0))

NextIf == IfOnly \/ IfElse \/ IfReset

SpecIf == InitIf /\ [][NextIf]_vars

\* let ts = [false, false, false]; let n = 0;
ForPrelude ==
    Program(<<VariableDeclaration(FALSE, "ts",
                  ArrayLiteral([j \in 1..(MaxLen + 1) |-> Identifier("false")])),
              VariableDeclaration(FALSE, "n", NumericLiteral(0))>>)

InitFor == Started(ForPrelude)

ForTests == {"true", "false", "null", "one", "zero", "string"}

\* for (let i = 0; ts[i]; i = i + 1) { n = n + 1 }
Loop ==
    ForStatement(VariableDeclaration(FALSE, "i", NumericLiteral(0)),
                 MemberExpression(Identifier("ts"), Identifier("i"), TRUE),
                 AssignmentExpression(Identifier("i"),
                     BinaryExpression(Identifier("i"), "+", NumericLiteral(1))),
                 <<AssignmentExpression(Identifier("n"),
                       BinaryExpression(Identifier("n"), "+", NumericLiteral(1)))>>)

\* ts[1] = 1; n = 0; for (...) { ... }: one line of input, the values of
\* the loop's successive tests given by ts.
ForLine ==
    \E j \in 0..MaxLen, t \in ForTests :
        Run("Program",
            Program(<<AssignmentExpression(
                          MemberExpression(Identifier("ts"), NumericLiteral(j), TRUE),
                          TestExpr(t)),
                      Mark("n", 0),
                      Loop>>))

NextFor == ForLine

SpecFor == InitFor /\ [][NextFor]_vars

-----------------------------------------------------------------------------
(* Try statements: the programs the REPL is given.                         *)

\* let x = 0; const a = {"x": 0}; let hit = 0;
TryPrelude ==
    Program(<<VariableDeclaration(FALSE, "x", NumericLiteral(0)),
              VariableDeclaration(TRUE, "a",
                  ObjectLiteral(<<Property("x", NumericLiteral(0))>>)),
              VariableDeclaration(FALSE, "hit", NumericLiteral(0))>>)

InitTry == Started(TryPrelude)

\* The statements of a try body: x = 1, a.x = 1, the lookup of the
\* undeclared nope, let error = 7, and the value 2.
TryStatements == {"setx", "seta", "fail", "declare", "two"}

TryStatement(s) ==
    CASE s = "setx" -> Mark("x", 1)
      [] s = "seta" ->
             AssignmentExpression(Dot(Identifier("a"), "x"), NumericLiteral(1))
      [] s = "fail" -> Identifier("nope")
      [] s = "declare" -> VariableDeclaration(FALSE, "error", NumericLiteral(7))
      [] s = "two" -> NumericLiteral(2)

\* try { s1 s2 } catch { hit = 1 error }
TryLine ==
    \E s1 \in TryStatements, s2 \in TryStatements :
        Run("TryCatchStatement",
            TryCatchStatement(<<TryStatement(s1), TryStatement(s2)>>,
                              <<Mark("hit", 1), Identifier("error")>>))

\* x = 0; a.x = 0; hit = 0
TryReset ==
    Run("Program",
        Program(<<Mark("x", 0),
                  AssignmentExpression(Dot(Identifier("a"), "x"), NumericLiteral(0)),
                  Mark("hit", 0)>>))

\* let error = 0, in an open block: the block's own error.
TryShadow ==
    /\ Len(cur) > 1
    /\ Run("VariableDeclaration",
           VariableDeclaration(FALSE, "error", NumericLiteral(0)))

\* A block opened at the top level of the program.
TryEnterBlock == Len(cur) = 1 /\ EnterBlock

NextTry == TryLine \/ TryReset \/ TryShadow \/ TryEnterBlock \/ ExitBlock

SpecTry == InitTry /\ [][NextTry]_vars

-----------------------------------------------------------------------------
(* Calls whose callee or arguments fail: the programs the REPL is given.   *)

\* let x = 0; const k = 0; fn f(p) { p }
CallPrelude ==
    Program(<<VariableDeclaration(FALSE, "x", NumericLiteral(0)),
              VariableDeclaration(TRUE, "k", NumericLiteral(0)),
              FunctionDeclaration("f", <<"p">>, <<Identifier("p")>>)>>)

InitCall == Started(CallPrelude)

\* The function f, the native println, the undeclared nope, and x, which
\* holds a number.
Callees == {"f", "println", "nope", "x"}

\* x = 1 and x = 2 leave a trace, k = 1 fails on the constant k, 3 is a
\* plain value.
CallArguments == {Mark("x", 1), Mark("x", 2), Mark("k", 1), NumericLiteral(3)}

\* f(x = 1), nope(x = 2, k = 1), ...
CallLine ==
    \E callee \in Callees, len \in 1..2 :
        \E args \in [1..len -> CallArguments] :
            Run("CallExpression", CallExpression(Identifier(callee), args))

\* x = 0
CallReset == Run("AssignmentExpression", Mark("x", 0))

NextCall == CallLine \/ CallReset

SpecCall == InitCall /\ [][NextCall]_vars

-----------------------------------------------------------------------------
(* Calls with too few and too many arguments: the programs the REPL is     *)
(* given.                                                                  *)

\* fn id(p) { p }  fn isNull(p) { p == null }  fn add(p) { p + 1 }
\* fn second(p, q) { q }
ArityPrelude ==
    Program(<<FunctionDeclaration("id", <<"p">>, <<Identifier("p")>>),
              FunctionDeclaration("isNull", <<"p">>,
                  <<BinaryExpression(Identifier("p"), "==", Identifier("null"))>>),
              FunctionDeclaration("add", <<"p">>,
                  <<BinaryExpression(Identifier("p"), "+", NumericLiteral(1))>>),
              FunctionDeclaration("second", <<"p", "q">>, <<Identifier("q")>>)>>)

InitArity == Started(ArityPrelude)

ArityFunctions == {"id", "isNull", "add", "second"}

\* id(), isNull(null), add(1, true), second(1), ...: from no argument to
\* one more than any function has parameters.
ArityCall ==
    \E f \in ArityFunctions, len \in 0..(MaxLen + 1) :
        \E args \in [1..len -> {"one", "null", "true"}] :
            Run("CallExpression",
                CallExpression(Identifier(f), [j \in 1..len |-> TestExpr(args[j])]))

NextArity == ArityCall

SpecArity == InitArity /\ [][NextArity]_vars

-----------------------------------------------------------------------------
(* Operators on operands of every tag: the programs the REPL is given.     *)

\* const o = {}; fn f() { } let l = null; let r = null;
BinaryPrelude ==
    Program(<<VariableDeclaration(TRUE, "o", ObjectLiteral(<<>>)),
              FunctionDeclaration("f", <<>>, <<>>),
              VariableDeclaration(FALSE, "l", Identifier("null")),
              VariableDeclaration(FALSE, "r", Identifier("null"))>>)

InitBinary == Started(BinaryPrelude)

\* The expression of each operand value; two is the number 2.
OperandExpr(operand) ==
    IF operand = "two" THEN NumericLiteral(2) ELSE TestExpr(operand)

Operands ==
    {"true", "false", "null", "zero", "one", "two", "string", "object",
     "array", "fn", "native"}

\* l = 2, r = "a", ...
SetOperand ==
    \E side \in {"l", "r"}, operand \in Operands :
        Run("AssignmentExpression",
            AssignmentExpression(Identifier(side), OperandExpr(operand)))

Operators == {"+", "-", "*", "/", "%", "<", ">", "&&", "|"}

\* l + r, l && r, ...
Operation ==
    \E operator \in Operators :
        Run("BinaryExpression",
            BinaryExpression(Identifier("l"), operator, Identifier("r")))

NextBinary == SetOperand \/ Operation

SpecBinary == InitBinary /\ [][NextBinary]_vars

-----------------------------------------------------------------------------
(* Equality of operands of every tag: the programs the REPL is given.      *)

\* const o = {}; const p = {}; const q = o; const s = [];
\* fn f() { } fn g() { } fn mk() { fn inner() { } }
\* const c1 = mk(); const c2 = mk(); let l = null; let r = null;
EqualsPrelude ==
    Program(<<VariableDeclaration(TRUE, "o", ObjectLiteral(<<>>)),
              VariableDeclaration(TRUE, "p", ObjectLiteral(<<>>)),
              VariableDeclaration(TRUE, "q", Identifier("o")),
              VariableDeclaration(TRUE, "s", ArrayLiteral(<<>>)),
              FunctionDeclaration("f", <<>>, <<>>),
              FunctionDeclaration("g", <<>>, <<>>),
              FunctionDeclaration("mk", <<>>,
                  <<FunctionDeclaration("inner", <<>>, <<>>)>>),
              VariableDeclaration(TRUE, "c1", CallExpression(Identifier("mk"), <<>>)),
              VariableDeclaration(TRUE, "c2", CallExpression(Identifier("mk"), <<>>)),
              VariableDeclaration(FALSE, "l", Identifier("null")),
              VariableDeclaration(FALSE, "r", Identifier("null"))>>)

InitEquals == Started(EqualsPrelude)

\* The expression of each operand: a literal, or the name that holds it.
ComparedExpr(operand) ==
    CASE operand = "two" -> NumericLiteral(2)
      [] operand = "string2" -> StringLiteral("b")
      [] operand \in {"p", "q", "s", "g", "c1", "c2"} -> Identifier(operand)
      [] OTHER -> TestExpr(operand)

\* Two numbers, two strings, the object o, its alias q and the object p
\* of equal contents, the arrays s and args of equal contents, the
\* functions f and g of equal text, the closures c1 and c2 of one
\* declaration, and a native function.
Compared ==
    {"true", "false", "null", "one", "two", "string", "string2", "object",
     "p", "q", "s", "array", "fn", "g", "c1", "c2", "native"}

\* l = o, r = q, ...
SetCompared ==
    \E side \in {"l", "r"}, operand \in Compared :
        Run("AssignmentExpression",
            AssignmentExpression(Identifier(side), ComparedExpr(operand)))

\* l == r, l != r
Comparison ==
    \E operator \in {"==", "!="} :
        Run("BinaryExpression",
            BinaryExpression(Identifier("l"), operator, Identifier("r")))

NextEquals == SetCompared \/ Comparison

SpecEquals == InitEquals /\ [][NextEquals]_vars

-----------------------------------------------------------------------------
(* The ternary sugar: the lines of source text the REPL is given.          *)

\* let x = 0; let y = null; let m = 0; let n = 0; fn t() { m = 1 }
\* fn e() { n = 1 }
TernaryPrelude ==
    Program(<<VariableDeclaration(FALSE, "x", NumericLiteral(0)),
              VariableDeclaration(FALSE, "y", Identifier("null")),
              VariableDeclaration(FALSE, "m", NumericLiteral(0)),
              VariableDeclaration(FALSE, "n", NumericLiteral(0)),
              FunctionDeclaration("t", <<>>,
                  <<AssignmentExpression(Identifier("m"), NumericLiteral(1))>>),
              FunctionDeclaration("e", <<>>,
                  <<AssignmentExpression(Identifier("n"), NumericLiteral(1))>>)>>)

InitTernary == Started(TernaryPrelude)

\* x > 5, x, x == 1
TernaryTests == {<<"x", " ", ">", " ", "5">>, <<"x">>, <<"x", "=", "=", "1">>}

Big == <<"\"", "b", "i", "g", "\"">>

Small == <<"\"", "s", "m", "a", "l", "l", "\"">>

\* "big" | "small", t() | e(), e() | "big"
TernaryBranches ==
    {<<Big, Small>>, <<<<"t", "(", ")">>, <<"e", "(", ")">>>>,
     <<<<"e", "(", ")">>, Big>>}

\* test -> a | b as a statement, as the value assigned to y, and as the
\* value z is declared with.
TernaryLine(form, test, branches) ==
    LET ternary == ((test \o <<" ", "-", ">", " ">>) \o branches[1])
                       \o (<<" ", "|", " ">> \o branches[2])
    IN CASE form = "statement" -> ternary
         [] form = "assignment" -> <<"y", " ", "=", " ">> \o ternary
         [] form = "declaration" ->
                (<<"l", "e", "t", " ", "z", " ", "=", " ">> \o ternary) \o <<";">>

TernaryForms == {"statement", "assignment", "declaration"}

Ternary ==
    \E form \in TernaryForms, test \in TernaryTests, branches \in TernaryBranches :
        Repl(TernaryLine(form, test, branches))

\* x = 10, x = 1, x = true, x = false
TernarySetX ==
    \E value \in {<<"1", "0">>, <<"1">>, <<"t", "r", "u", "e">>,
                  <<"f", "a", "l", "s", "e">>} :
        Repl(<<"x", " ", "=", " ">> \o value)

\* m = 0 n = 0
TernaryReset == Repl(<<"m", "=", "0", " ", "n", "=", "0">>)

NextTernary == Ternary \/ TernarySetX \/ TernaryReset

SpecTernary == InitTernary /\ [][NextTernary]_vars

-----------------------------------------------------------------------------
(* Member and call chains: the lines of source text the REPL is given.     *)

\* const a = {"b": 1}; let c = 0; fn f(p) { a }
ChainPrelude ==
    Program(<<VariableDeclaration(TRUE, "a",
                  ObjectLiteral(<<Property("b", NumericLiteral(1))>>)),
              VariableDeclaration(FALSE, "c", NumericLiteral(0)),
              FunctionDeclaration("f", <<"p">>, <<Identifier("a")>>)>>)

InitChain == Started(ChainPrelude)

\* The longest chain of suffixes a line holds.
MaxChain == 3

\* .b, [0], (c), ()
Suffixes == {"dot", "index", "call", "call0"}

SuffixText(suffix) ==
    CASE suffix = "dot" -> <<".", "b">>
      [] suffix = "index" -> <<"[", "0", "]">>
      [] suffix = "call" -> <<"(", "c", ")">>
      [] suffix = "call0" -> <<"(", ")">>

Chains == UNION {[1..n -> Suffixes] : n \in 1..MaxChain}

RECURSIVE ChainText(_, _)
\* primary followed by the suffixes of chain, as characters.
ChainText(primary, chain) ==
    IF chain = <<>> THEN <<primary>>
    ELSE ChainText(primary, SubSeq(chain, 1, Len(chain) - 1))
             \o SuffixText(chain[Len(chain)])

\* a.b(c)[0], f()(c).b, ...
ChainLine ==
    \E primary \in {"a", "f"}, chain \in Chains : Repl(ChainText(primary, chain))

NextChain == ChainLine

SpecChain == InitChain /\ [][NextChain]_vars

-----------------------------------------------------------------------------
(* Anonymous functions: the lines of source text the REPL is given.        *)

\* let x = 0; fn k(p) { p }
AnonymousPrelude ==
    Program(<<VariableDeclaration(FALSE, "x", NumericLiteral(0)),
              FunctionDeclaration("k", <<"p">>, <<Identifier("p")>>)>>)

InitAnonymous == Started(AnonymousPrelude)

\* The parameter lists and the bodies of the functions written.
AnonymousParams == {<<>>, <<"p">>}

AnonymousBodies == {<<>>, <<"x">>, <<"1">>}

\* fn(p){x}
AnonymousText(params, body) ==
    ((<<"f", "n", "(">> \o params) \o <<")", "{">>) \o (body \o <<"}">>)

AnonymousForms == {"statement", "argument", "declaration"}

\* The function as a statement, as the argument of a call of k, and as the
\* value h is declared with.
AnonymousLine(form, params, body) ==
    CASE form = "statement" -> AnonymousText(params, body)
      [] form = "argument" ->
             (<<"k", "(">> \o AnonymousText(params, body)) \o <<")">>
      [] form = "declaration" ->
             (<<"l", "e", "t", " ", "h", "=">> \o AnonymousText(params, body))
                 \o <<";">>

Anonymous ==
    \E form \in AnonymousForms, params \in AnonymousParams,
       body \in AnonymousBodies :
        Repl(AnonymousLine(form, params, body))

\* fn g(){x}
AnonymousNamed == Repl(<<"f", "n", " ", "g", "(", ")", "{", "x", "}">>)

\* x = 0, x = 1, x = 2
AnonymousSetX == \E value \in {"0", "1", "2"} : Repl(<<"x", "=", value>>)

NextAnonymous == Anonymous \/ AnonymousNamed \/ AnonymousSetX

SpecAnonymous == InitAnonymous /\ [][NextAnonymous]_vars

-----------------------------------------------------------------------------
(* A minus sign before a digit: the lines of source text the REPL is given. *)

\* let i = 0; let x = 0; const a = [5]; fn f() { i }
MinusPrelude ==
    Program(<<VariableDeclaration(FALSE, "i", NumericLiteral(0)),
              VariableDeclaration(FALSE, "x", NumericLiteral(0)),
              VariableDeclaration(TRUE, "a", ArrayLiteral(<<NumericLiteral(5)>>)),
              FunctionDeclaration("f", <<>>, <<Identifier("i")>>)>>)

InitMinus == Started(MinusPrelude)

\* i, f(), a[0]: operands that end in an identifier, a closing parenthesis
\* and a closing bracket.
MinusOperands == {<<"i">>, <<"f", "(", ")">>, <<"a", "[", "0", "]">>}

MinusDigits == {"1", "2"}

\* i-1 and i - 1
MinusLine(form, operand, digit) ==
    CASE form = "tight" -> operand \o <<"-", digit>>
      [] form = "spaced" -> operand \o <<" ", "-", " ", digit>>

Minus ==
    \E form \in {"tight", "spaced"}, operand \in MinusOperands,
       digit \in MinusDigits :
        Repl(MinusLine(form, operand, digit))

\* i=0, i=3, x=-1, ...: the minus sign after = begins a negative literal.
MinusSet ==
    \/ \E digit \in {"0", "1", "2", "3"} : Repl(<<"i", "=", digit>>)
    \/ \E digit \in MinusDigits : Repl(<<"x", "=", "-", digit>>)

NextMinus == Minus \/ MinusSet

SpecMinus == InitMinus /\ [][NextMinus]_vars

-----------------------------------------------------------------------------
(* A minus sign before a name: the lines of source text the REPL is given. *)

\* let x = 0; let y = 0; fn k(p) { p }
UnaryPrelude ==
    Program(<<VariableDeclaration(FALSE, "x", NumericLiteral(0)),
              VariableDeclaration(FALSE, "y", NumericLiteral(0)),
              FunctionDeclaration("k", <<"p">>, <<Identifier("p")>>)>>)

InitUnary == Started(UnaryPrelude)

UnaryForms == {"first", "assigned", "grouped", "argument"}

\* -x, y=-x (x=-y), (-x), k(-x)
UnaryLine(form, name) ==
    CASE form = "first" -> <<"-", name>>
      [] form = "assigned" -> <<IF name = "x" THEN "y" ELSE "x", "=", "-", name>>
      [] form = "grouped" -> <<"(", "-", name, ")">>
      [] form = "argument" -> <<"k", "(", "-", name, ")">>

Unary == \E form \in UnaryForms, name \in {"x", "y"} : Repl(UnaryLine(form, name))

\* x=0, x=1, x=2, x=3
UnarySetX == \E digit \in {"0", "1", "2", "3"} : Repl(<<"x", "=", digit>>)

NextUnary == Unary \/ UnarySetX

SpecUnary == InitUnary /\ [][NextUnary]_vars

-----------------------------------------------------------------------------
(* Increment, decrement and compound assignment: the lines of source text  *)
(* the REPL is given.                                                      *)

\* let x = 0; let i = 0; const o = {"p": 0}; const a = [0]
CompoundPrelude ==
    Program(<<VariableDeclaration(FALSE, "x", NumericLiteral(0)),
              VariableDeclaration(FALSE, "i", NumericLiteral(0)),
              VariableDeclaration(TRUE, "o",
                  ObjectLiteral(<<Property("p", NumericLiteral(0))>>)),
              VariableDeclaration(TRUE, "a", ArrayLiteral(<<NumericLiteral(0)>>))>>)

InitCompound == Started(CompoundPrelude)

\* The largest magnitude a counted value takes.
MaxCount == 1

\* x, o.p, a[0], a[i]: paths whose brackets hold a number or a name.
PlainTargets ==
    {<<"x">>, <<"o", ".", "p">>, <<"a", "[", "0", "]">>, <<"a", "[", "i", "]">>}

\* o["p"], a[i+0]: paths whose brackets hold a string or a sum.
OtherTargets ==
    {<<"o", "[", "\"", "p", "\"", "]">>, <<"a", "[", "i", "+", "0", "]">>}

CompoundOperators == {"++", "--", "+=", "-=", "*=", "/="}

\* target++, target--, target+=1, ...
CompoundLine(target, operator) ==
    CASE operator = "++" -> target \o <<"+", "+">>
      [] operator = "--" -> target \o <<"-", "-">>
      [] operator = "+=" -> target \o <<"+", "=", "1">>
      [] operator = "-=" -> target \o <<"-", "=", "1">>
      [] operator = "*=" -> target \o <<"*", "=", "1">>
      [] operator = "/=" -> target \o <<"/", "=", "1">>

\* target = target + 1, ...: what the line stands for.
ExpandedLine(target, operator) ==
    CASE operator \in {"++", "+="} -> (target \o <<"=">>) \o (target \o <<"+", "1">>)
      [] operator \in {"--", "-="} -> (target \o <<"=">>) \o (target \o <<" ", "-", " ", "1">>)
      [] operator = "*=" -> (target \o <<"=">>) \o (target \o <<"*", "1">>)
      [] operator = "/=" -> (target \o <<"=">>) \o (target \o <<"/", "1">>)

\* x, o.p and a[0] are numbers of magnitude MaxCount at most in st.
CountsWithin(st) ==
    \A text \in {<<"x">>, <<"o", ".", "p">>, <<"a", "[", "0", "]">>} :
        LET value == evaluate(produceAST(text).node, GlobalEnv, st).val
        IN value.type = "number" /\ value.value \in -MaxCount..MaxCount

Compound ==
    /\ \E target \in PlainTargets \cup OtherTargets, operator \in CompoundOperators :
           Repl(CompoundLine(target, operator))
    /\ CountsWithin([envs |-> envs', heap |-> heap'])

NextCompound == Compound

SpecCompound == InitCompound /\ [][NextCompound]_vars

-----------------------------------------------------------------------------
(* Compound operators with and without a target before them: the lines of  *)
(* source text the REPL is given.                                          *)

InitLexer == Started(CompoundPrelude)

\* x, i: names.  1, (x), "s" and nothing at all: no assignable target.
LexerTargets == {<<"x">>, <<"i">>}

LexerOthers == {<<"1">>, <<"(", "x", ")">>, <<"\"", "s", "\"">>, <<>>}

Lexer ==
    /\ \E head \in LexerTargets \cup LexerOthers, operator \in CompoundOperators :
           Repl(CompoundLine(head, operator))
    /\ \A text \in LexerTargets :
           LET value == evaluate(produceAST(text).node, GlobalEnv,
                                 [envs |-> envs', heap |-> heap']).val
           IN value.type = "number" /\ value.value \in -MaxCount..MaxCount

NextLexer == Lexer

SpecLexer == InitLexer /\ [][NextLexer]_vars

-----------------------------------------------------------------------------
(* Timers: setTimeout, setInterval, clearTimeout and clearInterval of the  *)
(* global environment, the table timeoutIds they share, and the host's     *)
(* timer queue running the callbacks between two lines of input.           *)

\* The handles generateTimeoutId draws from.
MaxTimers == 2

\* let x = 0; let h = 0; let r = false; fn f() { x = 1 }
TimerPrelude ==
    Program(<<VariableDeclaration(FALSE, "x", NumericLiteral(0)),
              VariableDeclaration(FALSE, "h", NumericLiteral(0)),
              VariableDeclaration(FALSE, "r", Identifier("false")),
              FunctionDeclaration("f", <<>>,
                  <<AssignmentExpression(Identifier("x"), NumericLiteral(1))>>)>>)

InitTimers == Started(TimerPrelude)

\* generateTimeoutId: Math.random until the handle is not in timeoutIds.
generateTimeoutId == (1..MaxTimers) \ DOMAIN timeoutIds

\* The value a native returned, written as the expression that yields it.
ReturnedAs(value) ==
    IF value.type = "boolean"
    THEN Identifier(IF value.value THEN "true" ELSE "false")
    ELSE NumericLiteral(value.value)

\* h = setTimeout(f, 0) and h = setInterval(f, 0): the host timer is
\* created pending, and its handle is kept in timeoutIds.
setTimer(native) ==
    /\ Running
    /\ cur = <<GlobalEnv>>
    /\ \E id \in generateTimeoutId :
       \E func \in {evaluate(Identifier("f"), GlobalEnv, Collect)} :
       \E r \in {evaluate(AssignmentExpression(Identifier("h"),
                              ReturnedAs(MK_NUMBER(id))), GlobalEnv, func.st)} :
       /\ timeoutIds' = timeoutIds @@
              (id :> [func |-> func.val, native |-> native, pending |-> TRUE])
       /\ envs' = r.st.envs
       /\ heap' = r.st.heap
       /\ result' = r.val
       /\ thrown' = r.thrown
       /\ cur' = cur
       /\ last' = [env |-> GlobalEnv, kind |-> native, node |-> Absent, id |-> id]

\* r = clearTimeout(h) and r = clearInterval(h): the host's clearTimeout
\* and clearInterval cancel a pending timer of either kind and do nothing
\* to one that is not pending; the entry of timeoutIds stays.
clearTimer(native) ==
    /\ Running
    /\ cur = <<GlobalEnv>>
    /\ \E id \in {evaluate(Identifier("h"), GlobalEnv, Collect)} :
       \E returned \in {IF id.val.value \in DOMAIN timeoutIds
                        THEN MK_BOOL(TRUE) ELSE MK_BOOL(FALSE)} :
       \E r \in {evaluate(AssignmentExpression(Identifier("r"),
                              ReturnedAs(returned)), GlobalEnv, id.st)} :
       /\ timeoutIds' = IF id.val.value \in DOMAIN timeoutIds
                        THEN [timeoutIds EXCEPT ![id.val.value].pending = FALSE]
                        ELSE timeoutIds
       /\ envs' = r.st.envs
       /\ heap' = r.st.heap
       /\ result' = r.val
       /\ thrown' = r.thrown
       /\ cur' = cur
       /\ last' = [env |-> GlobalEnv, kind |-> native, node |-> Absent,
                   id |-> id.val.value]

\* The host runs the callback of a pending timer: evaluateFunction(func, []).
\* A timeout has then fired; an interval stays pending.
callback ==
    /\ Running
    /\ cur = <<GlobalEnv>>
    /\ \E id \in DOMAIN timeoutIds :
       /\ timeoutIds[id].pending
       /\ \E r \in {evaluateFunction(timeoutIds[id].func, <<>>, Collect)} :
          /\ ~Failed(r)
          /\ envs' = r.st.envs
          /\ heap' = r.st.heap
          /\ timeoutIds' = [timeoutIds EXCEPT
                 ![id].pending = (timeoutIds[id].native = "setInterval")]
          /\ last' = [env |-> GlobalEnv, kind |-> "callback", node |-> Absent,
                      id |-> id]
    /\ UNCHANGED <<cur, result, thrown>>

\* h = 0, h = 1, ...: a handle one was given, or one never issued.
TimerSetH ==
    \E id \in 0..MaxTimers :
        Run("AssignmentExpression",
            AssignmentExpression(Identifier("h"), NumericLiteral(id)))

\* x = 0
TimerSetX ==
    Run("AssignmentExpression",
        AssignmentExpression(Identifier("x"), NumericLiteral(0)))

NextTimers ==
    \/ \E native \in {"setTimeout", "setInterval"} : setTimer(native)
    \/ \E native \in {"clearTimeout", "clearInterval"} : clearTimer(native)
    \/ callback
    \/ TimerSetH
    \/ TimerSetX

SpecTimers == InitTimers /\ [][NextTimers]_vars

-----------------------------------------------------------------------------
(* Operands with side effects: the programs the REPL is given.             *)

\* let x = 0; let y = 0
OperandsPrelude ==
    Program(<<VariableDeclaration(FALSE, "x", NumericLiteral(0)),
              VariableDeclaration(FALSE, "y", NumericLiteral(0))>>)

InitOperands == Started(OperandsPrelude)

\* What the left operand assigns to x.
LeftOperands == {"true", "false", "null", "one", "two"}

\* The right operand: y = x, y = 1, or the lookup of the undeclared nope.
RightOperands == {"copy", "one", "fail"}

RightOperand(right) ==
    CASE right = "copy" -> AssignmentExpression(Identifier("y"), Identifier("x"))
      [] right = "one" -> AssignmentExpression(Identifier("y"), NumericLiteral(1))
      [] right = "fail" -> Identifier("nope")

OperandOperators == {"&&", "|", "+", "<"}

\* (x = false) && (y = x), ...
OperandsNode(left, operator, right) ==
    BinaryExpression(AssignmentExpression(Identifier("x"), OperandExpr(left)),
                     operator, RightOperand(right))

OperandsLine ==
    \E left \in LeftOperands, operator \in OperandOperators, right \in RightOperands :
        Run("BinaryExpression", OperandsNode(left, operator, right))

\* x = 0; y = 0
OperandsReset ==
    Run("Program",
        Program(<<AssignmentExpression(Identifier("x"), NumericLiteral(0)),
                  AssignmentExpression(Identifier("y"), NumericLiteral(0))>>))

NextOperands == OperandsLine \/ OperandsReset

SpecOperands == InitOperands /\ [][NextOperands]_vars

-----------------------------------------------------------------------------
(* Array paths whose brackets hold a number or something else: the         *)
(* programs the REPL is given.                                             *)

\* const a = [1, 2]; const b = [a]; let k = "s"
IndexPrelude ==
    Program(<<VariableDeclaration(TRUE, "a",
                  ArrayLiteral(<<NumericLiteral(1), NumericLiteral(2)>>)),
              VariableDeclaration(TRUE, "b", ArrayLiteral(<<Identifier("a")>>)),
              VariableDeclaration(FALSE, "k", StringLiteral("s"))>>)

InitIndex == Started(IndexPrelude)

\* true, null, k (a string), a (an array): no numbers.
NonNumbers == {"true", "null", "k", "a"}

Indexes == NonNumbers \cup {"zero", "one"}

IndexExpr(index) ==
    CASE index = "zero" -> NumericLiteral(0)
      [] index = "one" -> NumericLiteral(1)
      [] OTHER -> Identifier(index)

\* a[index] and b[0][index]
IndexPaths == {"a", "b"}

IndexPath(path, index) ==
    IF path = "a" THEN MemberExpression(Identifier("a"), IndexExpr(index), TRUE)
    ELSE MemberExpression(MemberExpression(Identifier("b"), NumericLiteral(0), TRUE),
                          IndexExpr(index), TRUE)

\* The access is a read, or a write of 7 or of 8.
IndexForms == {"read", "seven", "eight"}

IndexAccess(path, index, form) ==
    CASE form = "read" -> IndexPath(path, index)
      [] form = "seven" ->
             AssignmentExpression(IndexPath(path, index), NumericLiteral(7))
      [] form = "eight" ->
             AssignmentExpression(IndexPath(path, index), NumericLiteral(8))

\* try { access } catch { error }
IndexTried(path, index, form) ==
    TryCatchStatement(<<IndexAccess(path, index, form)>>, <<Identifier("error")>>)

IndexLine ==
    \E path \in IndexPaths, index \in Indexes, form \in IndexForms :
        Run("Access", IndexAccess(path, index, form))

IndexTry ==
    \E path \in IndexPaths, index \in Indexes, form \in IndexForms :
        Run("TryCatchStatement", IndexTried(path, index, form))

NextIndex == IndexLine \/ IndexTry

SpecIndex == InitIndex /\ [][NextIndex]_vars

-----------------------------------------------------------------------------
(* Constants that hold an object or an array: the programs the REPL is     *)
(* given.                                                                  *)

\* const obj = {"key": 0}; const arr = [0]; let other = {"key": 0}
ConstPrelude ==
    Program(<<VariableDeclaration(TRUE, "obj",
                  ObjectLiteral(<<Property("key", NumericLiteral(0))>>)),
              VariableDeclaration(TRUE, "arr", ArrayLiteral(<<NumericLiteral(0)>>)),
              VariableDeclaration(FALSE, "other",
                  ObjectLiteral(<<Property("key", NumericLiteral(0))>>))>>)

InitConst == Started(ConstPrelude)

ConstNames == {"obj", "arr"}

\* obj.key, obj.fresh (a key the object does not have yet), arr[0]
ConstPaths == {"key", "fresh", "element"}

ConstPath(path) ==
    CASE path = "key" -> Dot(Identifier("obj"), "key")
      [] path = "fresh" -> Dot(Identifier("obj"), "fresh")
      [] path = "element" -> MemberExpression(Identifier("arr"), NumericLiteral(0), TRUE)

ConstValues == {"one", "two", "other"}

ConstValue(v) ==
    CASE v = "one" -> NumericLiteral(1)
      [] v = "two" -> NumericLiteral(2)
      [] v = "other" -> Identifier("other")

\* obj.key = 1, arr[0] = other, ...
ConstWrite(path, v) == AssignmentExpression(ConstPath(path), ConstValue(v))

\* obj = 1, arr = other, ...
ConstAssign(name, v) == AssignmentExpression(Identifier(name), ConstValue(v))

ConstPathWrite ==
    \E path \in ConstPaths, v \in ConstValues : Run("PathWrite", ConstWrite(path, v))

ConstPlainAssign ==
    \E name \in ConstNames, v \in ConstValues : Run("PlainAssign", ConstAssign(name, v))

NextConst == ConstPathWrite \/ ConstPlainAssign

SpecConst == InitConst /\ [][NextConst]_vars

-----------------------------------------------------------------------------
(* Loops whose body declares a name and a closure: the programs the REPL   *)
(* is given.                                                               *)

\* const fns = [0, 0]
LoopPrelude ==
    Program(<<VariableDeclaration(TRUE, "fns",
                  ArrayLiteral(<<NumericLiteral(0), NumericLiteral(0)>>))>>)

InitLoop == Started(LoopPrelude)

\* The iterations of a loop, and what its body adds to i.
LoopBounds == 0..2

LoopOffsets == 0..1

\* fns[k]
Fn(k) == MemberExpression(Identifier("fns"), NumericLiteral(k), TRUE)

\* for (let i = 0; i < n; i = i + 1) {
\*     let b = i + c; fn f() { i * 10 + b } fns[i] = f }
LoopNode(n, c) ==
    ForStatement(
        VariableDeclaration(FALSE, "i", NumericLiteral(0)),
        BinaryExpression(Identifier("i"), "<", NumericLiteral(n)),
        AssignmentExpression(Identifier("i"),
            BinaryExpression(Identifier("i"), "+", NumericLiteral(1))),
        <<VariableDeclaration(FALSE, "b",
              BinaryExpression(Identifier("i"), "+", NumericLiteral(c))),
          FunctionDeclaration("f", <<>>,
              <<BinaryExpression(
                    BinaryExpression(Identifier("i"), "*", NumericLiteral(10)),
                    "+", Identifier("b"))>>),
          AssignmentExpression(
              MemberExpression(Identifier("fns"), Identifier("i"), TRUE),
              Identifier("f"))>>)

LoopLine ==
    \E n \in LoopBounds, c \in LoopOffsets : Run("ForStatement", LoopNode(n, c))

\* fns[0](), fns[1]()
LoopCall ==
    \E k \in 0..1 : Run("CallExpression", CallExpression(Fn(k), <<>>))

\* i, b, f: the names of the loop, looked up after it.
LoopNames == {"i", "b", "f"}

LoopLookup ==
    \E name \in LoopNames : Run("Identifier", Identifier(name))

\* fns[0] = 0, fns[1] = 0
LoopForget ==
    \E k \in 0..1 :
        Run("AssignmentExpression", AssignmentExpression(Fn(k), NumericLiteral(0)))

NextLoop == LoopLine \/ LoopCall \/ LoopLookup \/ LoopForget

SpecLoop == InitLoop /\ [][NextLoop]_vars

-----------------------------------------------------------------------------
(* Declarations, assignments, path writes, blocks, calls and try/catch in  *)
(* one program: the programs the REPL is given.                            *)

\* let x = 0; const k = {"p": 0}; fn f(q) { let t = q; t }
EnvironmentPrelude ==
    Program(<<VariableDeclaration(FALSE, "x", NumericLiteral(0)),
              VariableDeclaration(TRUE, "k",
                  ObjectLiteral(<<Property("p", NumericLiteral(0))>>)),
              FunctionDeclaration("f", <<"q">>,
                  <<VariableDeclaration(FALSE, "t", Identifier("q")),
                    Identifier("t")>>)>>)

InitEnvironment == Started(EnvironmentPrelude)

\* let x = 1, const u = 1, ...: in the current scope.
EnvironmentDeclare ==
    \E name \in {"x", "u"}, constant \in BOOLEAN :
        Run("VariableDeclaration",
            VariableDeclaration(constant, name, NumericLiteral(1)))

\* x = 1, u = 1, k = 1
EnvironmentAssign ==
    \E name \in {"x", "u", "k"} :
        Run("AssignmentExpression",
            AssignmentExpression(Identifier(name), NumericLiteral(1)))

\* k.p = 1
EnvironmentPathWrite ==
    Run("PathWrite",
        AssignmentExpression(Dot(Identifier("k"), "p"), NumericLiteral(1)))

\* f(1)
EnvironmentCall ==
    Run("CallExpression", CallExpression(Identifier("f"), <<NumericLiteral(1)>>))

\* try { const u = 1; nope } catch { let e = error }
\* try { const u = 1 } catch { let e = error }
EnvironmentTry ==
    \E body \in {<<VariableDeclaration(TRUE, "u", NumericLiteral(1)),
                   Identifier("nope")>>,
                 <<VariableDeclaration(TRUE, "u", NumericLiteral(1))>>} :
        Run("TryCatchStatement",
            TryCatchStatement(body,
                <<VariableDeclaration(FALSE, "e", Identifier("error"))>>))

\* A block opened at the top level of the program.
EnvironmentEnterBlock == EnterBlockWithin(1)

NextEnvironment ==
    \/ EnvironmentDeclare
    \/ EnvironmentAssign
    \/ EnvironmentPathWrite
    \/ EnvironmentCall
    \/ EnvironmentTry
    \/ EnvironmentEnterBlock
    \/ ExitBlock

SpecEnvironment == InitEnvironment /\ [][NextEnvironment]_vars

-----------------------------------------------------------------------------
(* Scope chains, as the claims speak of them.                              *)

\* The scopes of the environments E from e outward to the root, nearest
\* first.
RECURSIVE ChainIn(_, _)
ChainIn(E, e) == IF e = 0 THEN <<>> ELSE <<e>> \o ChainIn(E, E[e].parent)

\* The nearest scope from e outward that defines name, in E.
BinderIn(E, e, name) ==
    LET chain == ChainIn(E, e)
        i == SetMin({j \in DOMAIN chain : name \in DOMAIN E[chain[j]].variables})
    IN chain[i]

\* The value name has for code running in scope e, in E.
BoundIn(E, e, name) == E[BinderIn(E, e, name)].variables[name]

ScopeChain(e) == ChainIn(envs, e)

Defines(e, name) == name \in DOMAIN envs[e].variables

Visible(e, name) == \E i \in DOMAIN ScopeChain(e) : Defines(ScopeChain(e)[i], name)

Binder(e, name) == BinderIn(envs, e, name)

Bound(e, name) == BoundIn(envs, e, name)

LiveEnvs == {e \in 1..MaxEnvs : envs[e].live}

\* The last statement was a call that returned.
Returned == last.kind = "CallExpression" /\ thrown = "none"

\* The value the last call's callee name had in the calling scope.
Callee == Bound(last.env, last.node.callee.symbol)

\* A function whose body is a read of the free variable x.
ReadsX(f) == f.type = "fn" /\ f.params = <<>> /\ f.body = <<Identifier("x")>>

\* C1: a call of a function that reads the variable x of the scope S it was
\* declared in (the scope that binds the function's name to it) returns the
\* value x has in S now, at the call, whatever x was when the function was
\* declared and however often it was called before.
C1_ClosureReadsCurrentValue ==
    (Returned /\ ReadsX(Callee)) =>
        \E S \in LiveEnvs :
            /\ Defines(S, Callee.name)
            /\ envs[S].variables[Callee.name] = Callee
            /\ Visible(S, "x")
            /\ result = Bound(S, "x")

\* C1 witness: get was declared in the global scope while x was 1; x was
\* assigned 2 since, and a call of get has just returned 2.
C1_Witness ==
    /\ Returned
    /\ last.node.callee.symbol = "get"
    /\ Binder(last.env, "get") = GlobalEnv
    /\ envs[GlobalEnv].variables["x"] = MK_NUMBER(2)
    /\ result = MK_NUMBER(2)

\* The environments a statement created: those not alive before it.
Fresh == {e \in 1..MaxEnvs : ~Collect.envs[e].live /\ envs'[e].live}

\* C2: a call of a user function runs in a fresh scope whose parent is the
\* environment the function captured, with the parameters bound in it: a
\* free variable of the body takes the defining scope's binding, whatever
\* the calling scope binds the name to, and every activation of a recursive
\* function has its own fresh scope and its own parameter binding.
C2_LexicalScope ==
    [][(last'.kind = "CallExpression" /\ thrown' = "none") =>
          LET caller == last'.env
              f == BoundIn(envs', caller, last'.node.callee.symbol)
          IN f.type = "fn" =>
                /\ \E a \in Fresh :
                      /\ envs'[a].parent = f.declarationEnv
                      /\ \A i \in DOMAIN f.params :
                            f.params[i] \in DOMAIN envs'[a].variables
                /\ ReadsX(f) =>
                      result' = BoundIn(envs', f.declarationEnv, "x")
                /\ f.name = "rec" =>
                      /\ result' = MK_NUMBER(0)
                      /\ \E a0, a1 \in Fresh :
                            /\ a0 # a1
                            /\ envs'[a0].parent = f.declarationEnv
                            /\ envs'[a1].parent = f.declarationEnv
                            /\ envs'[a0].variables["n"] = MK_NUMBER(0)
                            /\ envs'[a1].variables["n"] = MK_NUMBER(1)
      ]_vars

\* C2 witness: a call made in a block that binds its own x returned the x
\* of the function's defining scope, which holds another value.
C2_Witness ==
    /\ Returned
    /\ ReadsX(Callee)
    /\ Defines(last.env, "x")
    /\ last.env # Binder(Callee.declarationEnv, "x")
    /\ envs[last.env].variables["x"] # Bound(Callee.declarationEnv, "x")
    /\ result = Bound(Callee.declarationEnv, "x")

\* C2 witness of the recursion: rec(0) returned its own n.
C2_WitnessRec ==
    /\ Returned
    /\ last.node.callee.symbol = "rec"
    /\ result = MK_NUMBER(0)

\* Some scope of the chain from e outward defines name, in E.
VisibleIn(E, e, name) ==
    \E i \in DOMAIN ChainIn(E, e) : name \in DOMAIN E[ChainIn(E, e)[i]].variables

\* C6: declare fails exactly when the current scope's own mapping has the
\* name, and then no scope changes; a name only an ancestor defines (as a
\* constant or not) is declared in the current scope alone, every other
\* scope keeps its bindings, and lookups from the declaring scope and from
\* the scopes nested in it take the new binding.
C6_DeclareInCurrentScope ==
    [][/\ last'.kind = "VariableDeclaration" =>
             LET e == last'.env
                 name == last'.node.identifier
                 value == MK_NUMBER(last'.node.value.value)
                 before == Collect.envs
             IN /\ (thrown' # "none") <=> (name \in DOMAIN before[e].variables)
                /\ thrown' # "none" => envs' = before
                /\ thrown' = "none" =>
                      /\ envs'[e].variables = MapSet(before[e].variables, name, value)
                      /\ envs'[e].constants =
                             IF last'.node.constant
                             THEN before[e].constants \cup {name}
                             ELSE before[e].constants
                      /\ \A o \in (1..MaxEnvs) \ {e} : envs'[o] = before[o]
       /\ (last'.kind = "Identifier" /\ thrown' = "none") =>
             result' = BoundIn(envs', last'.env, last'.node.symbol)
      ]_vars

\* C6 witness: the global scope binds k as a constant, a block has declared
\* its own k, and a lookup of k from a block nested in that block has just
\* yielded the block's value, the global k being what it was.
C6_Witness ==
    /\ last.kind = "Identifier" /\ last.node.symbol = "k" /\ thrown = "none"
    /\ Len(cur) = 3
    /\ Defines(cur[2], "k") /\ ~Defines(cur[3], "k")
    /\ "k" \in envs[GlobalEnv].constants
    /\ envs[GlobalEnv].variables["k"] = MK_NUMBER(1)
    /\ result = MK_NUMBER(2)

\* C6 witness of the failure: a declaration of a name the current scope
\* already has was refused.
C6_WitnessRefused ==
    /\ last.kind = "VariableDeclaration" /\ thrown = "already defined"
    /\ last.env # GlobalEnv

\* C7: assign resolves the nearest scope outward that defines the name; it
\* fails when no scope of the chain defines it or when that nearest scope
\* marks it constant, and then no binding of any scope changes; otherwise
\* that scope's binding of the name, and nothing else, changes.
C7_AssignNearestScope ==
    [][last'.kind = "AssignmentExpression" =>
          LET e == last'.env
              name == last'.node.assignee.symbol
              value == MK_NUMBER(last'.node.value.value)
              before == Collect.envs
              defined == VisibleIn(before, e, name)
              b == BinderIn(before, e, name)
          IN /\ (thrown' # "none") <=>
                    (~defined \/ name \in before[b].constants)
             /\ thrown' # "none" => envs' = before
             /\ thrown' = "none" =>
                    envs' = [before EXCEPT ![b].variables[name] = value]
      ]_vars

\* C7 witness: an assignment to x made in a nested block was refused
\* because the nearest scope defining x, an enclosing block, marks it
\* constant, while the global x is a variable.
C7_Witness ==
    /\ last.kind = "AssignmentExpression" /\ last.node.assignee.symbol = "x"
    /\ thrown = "cannot reassign constant"
    /\ ~Defines(last.env, "x")
    /\ Binder(last.env, "x") # GlobalEnv
    /\ "x" \notin envs[GlobalEnv].constants

\* C7 witness of the success: an assignment to k made in a nested block
\* changed the k of the enclosing block, the global constant k staying 1.
C7_WitnessAssigned ==
    /\ last.kind = "AssignmentExpression" /\ last.node.assignee.symbol = "k"
    /\ thrown = "none"
    /\ ~Defines(last.env, "k")
    /\ Bound(last.env, "k") = MK_NUMBER(3)
    /\ envs[GlobalEnv].variables["k"] = MK_NUMBER(1)

-----------------------------------------------------------------------------
(* Paths and aliases, as the claims speak of them.                         *)

\* What the program reads at the expression, its store left as it is.
ReadIn(st, expr) == evaluate(expr, GlobalEnv, st).val

Read(expr) == ReadIn(Store, expr)

\* The object a names, and the containers inside it.
RootObject == Read(Identifier("a")).ref

ContainerIn(H, shape) ==
    CASE shape = "dot" -> RootObject
      [] shape = "deep2" -> H[RootObject].properties["b"].ref
      [] shape = "deep3" ->
             H[H[RootObject].properties["b"].ref].properties["e"].ref

LastKey(shape) ==
    CASE shape = "dot" -> "x" [] shape = "deep2" -> "c" [] shape = "deep3" -> "f"

DottedShapes == {"dot", "deep2", "deep3"}

\* The statement was a write of value through the path of the shape from
\* the name base.
WroteAt(l, shape, base) ==
    /\ l.kind = "AssignmentExpression"
    /\ l.node.assignee.kind = "MemberExpression"
    /\ l.node.assignee.property.kind = PathFrom(shape, base).property.kind
    /\ l.node.assignee = PathFrom(shape, base)

ReadAt(l, shape, base) ==
    /\ l.kind = "MemberExpression"
    /\ l.node.property.kind = PathFrom(shape, base).property.kind
    /\ l.node = PathFrom(shape, base)

WrittenValue(l) == MK_NUMBER(l.node.value.value)

\* C4: a write a.k1.....kn = v through a dotted path over nested objects
\* stores v under kn in the innermost container and nowhere else: every
\* other key of every container, and every binding, is as before, and the
\* path then reads v.
C4_DottedWriteInnermostOnly ==
    [][\A shape \in DottedShapes :
         (WroteAt(last', shape, Identifier("a")) /\ thrown' = "none") =>
             /\ heap' = [Collect.heap EXCEPT
                            ![ContainerIn(Collect.heap, shape)].properties =
                                MapSet(@, LastKey(shape), WrittenValue(last'))]
             /\ envs' = Collect.envs
             /\ ReadIn([envs |-> envs', heap |-> heap'],
                       PathFrom(shape, Identifier("a"))) = WrittenValue(last')]_vars

\* a.b.e.f = 6 has run, after a.x = 5 and a.b.c = 5.
C4_Witness ==
    /\ WroteAt(last, "deep3", Identifier("a"))
    /\ thrown = "none"
    /\ Read(PathFrom("deep3", Identifier("a"))) = MK_NUMBER(6)
    /\ Read(PathFrom("deep2", Identifier("a"))) = MK_NUMBER(5)
    /\ Read(PathFrom("dot", Identifier("a"))) = MK_NUMBER(5)

\* C5: a bracket access a[e] whose expression e evaluates to the string
\* "x" (the literal "x", or the variable k that holds "x") reads the value
\* under the key "x", and a[e] = v stores v under the key "x" and under no
\* other key.
C5_BracketUsesEvaluatedKey ==
    [][\A shape \in {"string", "ident"} :
         /\ (ReadAt(last', shape, Identifier("a")) /\ thrown' = "none") =>
                /\ result' = MapGet(heap[RootObject].properties, "x")
                /\ heap' = heap
         /\ (WroteAt(last', shape, Identifier("a")) /\ thrown' = "none") =>
                heap' = [heap EXCEPT ![RootObject].properties =
                                        MapSet(@, "x", WrittenValue(last'))]]_vars

\* C3: after a write through one name of an array or object (a variable
\* declared or assigned from it, a parameter it was passed as, an element
\* or property of a literal it was put in), the same path read through
\* every name of it yields the written value.
C3_AliasesShareStorage ==
    /\ \A shape \in {"dot", "string"}, n1 \in ObjectNames, n2 \in ObjectNames :
           (WroteAt(last, shape, n1) /\ thrown = "none") =>
               Read(PathFrom(shape, n2)) = WrittenValue(last)
    /\ \A n1 \in ArrayNames, n2 \in ArrayNames :
           (WroteAt(last, "index", n1) /\ thrown = "none") =>
               Read(PathFrom("index", n2)) = WrittenValue(last)
    /\ \A n2 \in ObjectNames :
           (last.kind = "CallExpression" /\ thrown = "none") =>
               Read(PathFrom("dot", n2)) = MK_NUMBER(last.node.args[2].value)

\* What holds of the aliases: the paths made of dotted keys and of numeric
\* indexes read, through every name, the value written through any name.
SharedOnDottedAndIndexed ==
    /\ \A n1 \in ObjectNames, n2 \in ObjectNames :
           (WroteAt(last, "dot", n1) /\ thrown = "none") =>
               Read(PathFrom("dot", n2)) = WrittenValue(last)
    /\ \A n1 \in ArrayNames, n2 \in ArrayNames :
           (WroteAt(last, "index", n1) /\ thrown = "none") =>
               Read(PathFrom("index", n2)) = WrittenValue(last)
    /\ \A n2 \in ObjectNames :
           (last.kind = "CallExpression" /\ thrown = "none") =>
               Read(PathFrom("dot", n2)) = MK_NUMBER(last.node.args[2].value)

-----------------------------------------------------------------------------
(* Tests, as the claims speak of them.                                     *)

\* The value is the boolean true.
IsTrue(v) == v.type = "boolean" /\ v.value = TRUE

Global(E, name) == MapGet(E[GlobalEnv].variables, name)

\* What the test of an if statement evaluates to, before the statement.
TestOf(stmt) == ReadIn(Collect, stmt.test)

\* C8: an if statement runs its then-branch exactly when its test
\* evaluates to the boolean true; on every other value (false, null, a
\* number, a string, an object, an array, a function) it runs its else
\* branch if it has one, and nothing otherwise.
C8_IfTakesStrictTrue ==
    [][(last'.kind = "IfStatement" /\ thrown' = "none") =>
         LET stmt == last'.node IN
         IF IsTrue(TestOf(stmt)) THEN Global(envs', "hit") = MK_NUMBER(1)
         ELSE IF stmt.alternate = <<>>
         THEN /\ Global(envs', "hit") = Global(envs, "hit")
              /\ heap' = Collect.heap
              /\ result' = MK_NULL
         ELSE IF IsTrue(TestOf(stmt.alternate[1]))
         THEN Global(envs', "hit") = MK_NUMBER(2)
         ELSE Global(envs', "hit") = MK_NUMBER(3)]_vars

\* if (1) { hit = 1 } else if ("a") { hit = 2 } else { hit = 3 } has run.
C8_Witness ==
    /\ last.kind = "IfStatement"
    /\ last.node.test.kind = "NumericLiteral"
    /\ last.node.test.value = 1
    /\ last.node.alternate # <<>>
    /\ last.node.alternate[1].test.kind = "StringLiteral"
    /\ thrown = "none"
    /\ Global(envs, "hit") = MK_NUMBER(3)

\* if (true) { hit = 1 } has run.
C8_WitnessThen ==
    /\ last.kind = "IfStatement"
    /\ last.node.test = Identifier("true")
    /\ last.node.alternate = <<>>
    /\ thrown = "none"
    /\ Global(envs, "hit") = MK_NUMBER(1)

\* The values of ts, the successive tests of the loop.
TestsIn(E, H) == H[Global(E, "ts").ref].elements

\* How many tests are the boolean true before the first that is not.
RECURSIVE Leading(_, _)
Leading(tests, j) ==
    IF j > Len(tests) THEN 0
    ELSE IF IsTrue(tests[j]) THEN 1 + Leading(tests, j + 1)
    ELSE 0

\* The scopes the statement made that hold the loop variable.
LoopScopes == {e \in 1..MaxEnvs : /\ envs'[e].live
                                  /\ ~Collect.envs[e].live
                                  /\ "i" \in DOMAIN envs'[e].variables}

ForStep ==
    /\ last'.kind = "Program"
    /\ last'.node.body[Len(last'.node.body)].kind = "ForStatement"

\* C9: the body of a for loop runs as many times as its test evaluates to
\* the boolean true before the first evaluation to anything else, and the
\* update runs once after each run of the body: a number, a string or
\* null stops the loop as false does.
C9_ForRunsWhileStrictTrue ==
    [][(ForStep /\ thrown' = "none") =>
         LET runs == Leading(TestsIn(envs', heap'), 1) IN
         /\ Global(envs', "n") = MK_NUMBER(runs)
         /\ \A e \in LoopScopes : envs'[e].variables["i"] = MK_NUMBER(runs)]_vars

\* C10: a for loop whose first test is not the boolean true runs neither
\* its body nor its update: only its init has run, in a scope of the
\* loop's own, and every for loop evaluates to null.
C10_ForNotStartedAndNull ==
    [][ForStep =>
         /\ thrown' = "none" => result' = MK_NULL
         /\ ~IsTrue(TestsIn(envs', heap')[1]) =>
                /\ thrown' = "none"
                /\ Global(envs', "n") = MK_NUMBER(0)
                /\ \E e \in LoopScopes :
                       /\ LoopScopes = {e}
                       /\ e # GlobalEnv
                       /\ envs'[e].parent = GlobalEnv
                       /\ envs'[e].variables = MapSet(EmptyMap, "i", MK_NUMBER(0))
                /\ {e \in 1..MaxEnvs : envs'[e].live /\ ~Collect.envs[e].live}
                       = LoopScopes
                /\ DOMAIN envs'[GlobalEnv].variables
                       = DOMAIN Collect.envs[GlobalEnv].variables]_vars

\* The loop has run on the tests 1, true, ... and left n at 0.
C10_Witness ==
    /\ last.kind = "Program"
    /\ thrown = "none"
    /\ TestsIn(envs, heap)[1] = MK_NUMBER(1)
    /\ IsTrue(TestsIn(envs, heap)[2])
    /\ Global(envs, "n") = MK_NUMBER(0)
    /\ result = MK_NULL

\* The loop has run its body twice on the tests true, true, false, ... and
\* evaluated to null.
C10_WitnessRan ==
    /\ last.kind = "Program"
    /\ thrown = "none"
    /\ Global(envs, "n") = MK_NUMBER(2)
    /\ Leading(TestsIn(envs, heap), 1) = 2
    /\ result = MK_NULL

-----------------------------------------------------------------------------
(* Try statements, as the claims speak of them.                            *)

\* The statements of the try body of the statement, as TryStatements name
\* them.
TryBody(stmt) ==
    [j \in DOMAIN stmt.body |->
        CASE stmt.body[j].kind = "Identifier" -> "fail"
          [] stmt.body[j].kind = "VariableDeclaration" -> "declare"
          [] stmt.body[j].kind = "NumericLiteral" -> "two"
          [] stmt.body[j].assignee.kind = "Identifier" -> "setx"
          [] OTHER -> "seta"]

\* The statement at j raises: the lookup of nope, or a second declaration
\* of error in the try scope.
Raises(body, j) ==
    \/ body[j] = "fail"
    \/ body[j] = "declare" /\ \E i \in 1..(j - 1) : body[i] = "declare"

\* Where the body fails: the place of its first statement that raises, or
\* 0.
FailsAt(body) ==
    IF \E j \in DOMAIN body : Raises(body, j)
    THEN SetMin({j \in DOMAIN body : Raises(body, j)})
    ELSE 0

\* What the body raises.
RaisedBy(body) ==
    Raised(IF body[FailsAt(body)] = "fail" THEN "cannot resolve"
           ELSE "already defined")

\* The statements the body runs to their end.
Completed(body) ==
    IF FailsAt(body) = 0 THEN {body[j] : j \in DOMAIN body}
    ELSE {body[j] : j \in 1..(FailsAt(body) - 1)}

LastValue(s) ==
    CASE s = "setx" -> MK_NUMBER(1)
      [] s = "seta" -> MK_NUMBER(1)
      [] s = "declare" -> MK_NUMBER(7)
      [] s = "two" -> MK_NUMBER(2)

ObjectX(E, H) == H[Global(E, "a").ref].properties["x"]

\* The scopes the statement made.
MadeScopes == {e \in 1..MaxEnvs : envs'[e].live /\ ~Collect.envs[e].live}

\* C11: when a statement of a try body raises, the raised value is bound
\* to error as the scope enclosing the try statement sees it, the catch
\* body runs in a child scope of its own and gives the result, and what
\* the try body did before the failure stays done; when nothing is raised
\* the catch body does not run, error is as before and the result is the
\* body's last value.
C11_TryCatch ==
    [][last'.kind = "TryCatchStatement" =>
         LET body == TryBody(last'.node)
             done == Completed(body)
             outer == last'.env
         IN
         /\ thrown' = "none"
         /\ Global(envs', "x") =
                IF "setx" \in done THEN MK_NUMBER(1) ELSE Global(Collect.envs, "x")
         /\ ObjectX(envs', heap') =
                IF "seta" \in done THEN MK_NUMBER(1) ELSE ObjectX(Collect.envs, Collect.heap)
         /\ \A e \in MadeScopes : envs'[e].parent = outer
         /\ \A e \in 1..MaxEnvs :
                Collect.envs[e].live =>
                    /\ envs'[e].live
                    /\ DOMAIN envs'[e].variables = DOMAIN Collect.envs[e].variables
         /\ IF FailsAt(body) # 0
            THEN /\ BoundIn(envs', outer, "error") = RaisedBy(body)
                 /\ Global(envs', "hit") = MK_NUMBER(1)
                 /\ result' = RaisedBy(body)
                 /\ \A e \in MadeScopes :
                        "error" \in DOMAIN envs'[e].variables =>
                            envs'[e].variables["error"] = MK_NUMBER(7)
            ELSE /\ BoundIn(envs', outer, "error") = BoundIn(Collect.envs, outer, "error")
                 /\ Global(envs', "hit") = Global(Collect.envs, "hit")
                 /\ result' = LastValue(body[Len(body)])]_vars

\* In a block that declared its own error, try { a.x = 1 nope } catch
\* { ... } has run: the block's error holds the raised value, the global
\* error is untouched and a.x is 1.
C11_Witness ==
    /\ last.kind = "TryCatchStatement"
    /\ TryBody(last.node) = <<"seta", "fail">>
    /\ Len(cur) = 2
    /\ Defines(Top, "error")
    /\ Bound(Top, "error") = Raised("cannot resolve")
    /\ Global(envs, "error") = MK_NULL
    /\ ObjectX(envs, heap) = MK_NUMBER(1)
    /\ Global(envs, "hit") = MK_NUMBER(1)

\* try { let error = 7 2 } catch { ... } has run and raised nothing.
C11_WitnessQuiet ==
    /\ last.kind = "TryCatchStatement"
    /\ TryBody(last.node) = <<"declare", "two">>
    /\ result = MK_NUMBER(2)
    /\ Global(envs, "hit") = MK_NUMBER(0)
    /\ Global(envs, "error") = MK_NULL

-----------------------------------------------------------------------------
(* Calls, as the claims speak of them.                                     *)

CallStep == last'.kind = "CallExpression"

\* C12: a call evaluates its callee before its arguments: when the callee
\* fails to evaluate, its failure is the one raised and no argument has
\* been evaluated, so no argument has left a trace.
C12_CalleeBeforeArguments ==
    [][(CallStep /\ last'.node.callee.symbol = "nope") =>
         /\ thrown' = "cannot resolve"
         /\ Global(envs', "x") = Global(Collect.envs, "x")]_vars

\* What the calls do: the arguments are evaluated left to right before
\* the callee, so a failing argument hides the callee's failure and the
\* arguments before it have left their trace.
ArgumentsBeforeCallee ==
    [][(CallStep /\ last'.node.callee.symbol = "nope") =>
         LET args == last'.node.args
             failing == {j \in DOMAIN args : args[j] = Mark("k", 1)}
             ran == IF failing = {} THEN DOMAIN args ELSE 1..(SetMin(failing) - 1)
             marks == {j \in ran : args[j].kind = "AssignmentExpression"}
         IN
         /\ thrown' = IF failing = {} THEN "cannot resolve"
                      ELSE "cannot reassign constant"
         /\ Global(envs', "x") =
                IF marks = {} THEN Global(Collect.envs, "x")
                ELSE MK_NUMBER(args[CHOOSE j \in marks : \A i \in marks : i <= j].value.value)]_vars

\* The parameters of the function the call names.
ParamsOf(call) == Global(envs, call.callee.symbol).params

\* The call with null written for each parameter it gives no argument,
\* and without the arguments past the parameters.
Fitted(call) ==
    [call EXCEPT !.args = [j \in 1..Len(ParamsOf(call)) |->
                              IF j <= Len(call.args) THEN call.args[j]
                              ELSE Identifier("null")]]

\* C13: a call with more arguments than parameters ignores the extras,
\* and a call with fewer binds each missing parameter to null: it raises
\* nothing and yields what the call with null written for the missing
\* arguments yields.
C13_MissingParamsAreNull ==
    [][CallStep =>
         /\ thrown' = "none"
         /\ result' = ReadIn(Collect, Fitted(last'.node))]_vars

\* What the calls do with extra arguments: they are ignored.
ExtraArgumentsIgnored ==
    [][(CallStep /\ Len(last'.node.args) >= Len(ParamsOf(last'.node))) =>
         /\ thrown' = "none"
         /\ result' = ReadIn(Collect, Fitted(last'.node))]_vars

-----------------------------------------------------------------------------
(* Operators, as the claims speak of them.                                 *)

\* The result of the operator on two numbers and on two booleans.
Arithmetic(operator, a, b) ==
    CASE operator = "+" -> MK_NUMBER(a + b)
      [] operator = "-" -> MK_NUMBER(a - b)
      [] operator = "*" -> MK_NUMBER(a * b)
      [] operator = "/" -> MK_NUMBER(a \div b)
      [] operator = "%" -> MK_NUMBER(a % b)
      [] operator = "<" -> MK_BOOL(a < b)
      [] operator = ">" -> MK_BOOL(a > b)
      [] operator = "&&" -> MK_BOOL(a /\ b)
      [] operator = "|" -> MK_BOOL(a \/ b)

\* C14: + - * / % < > on an operand that is no number, and && and | on an
\* operand that is no boolean, yield the boolean false; on operands of the
\* required tag they yield the arithmetic, comparison or boolean result;
\* in both cases nothing is raised and no environment changes.
C14_SilentTypeMismatch ==
    [][last'.kind = "BinaryExpression" =>
         LET operator == last'.node.operator
             l == Global(Collect.envs, "l")
             r == Global(Collect.envs, "r")
             tag == IF operator \in {"&&", "|"} THEN "boolean" ELSE "number"
         IN
         /\ thrown' = "none"
         /\ envs' = Collect.envs
         /\ heap' = Collect.heap
         /\ result' = IF l.type = tag /\ r.type = tag
                      THEN Arithmetic(operator, l.value, r.value)
                      ELSE MK_BOOL(FALSE)]_vars

\* 2 * "a" has yielded false.
C14_Witness ==
    /\ last.kind = "BinaryExpression"
    /\ last.node.operator = "*"
    /\ Global(envs, "l").type = "number"
    /\ Global(envs, "l").value = 2
    /\ Global(envs, "r").type = "string"
    /\ result = MK_BOOL(FALSE)
    /\ thrown = "none"

\* 2 / 1 has yielded 2.
C14_WitnessNumbers ==
    /\ last.kind = "BinaryExpression"
    /\ last.node.operator = "/"
    /\ Global(envs, "l").type = "number"
    /\ Global(envs, "l").value = 2
    /\ Global(envs, "r").type = "number"
    /\ result = MK_NUMBER(2)

\* Two values of null, boolean, number or string are the same value; two
\* arrays, objects or native functions are the same storage.
SameValue(l, r) ==
    /\ l.type = r.type
    /\ CASE l.type = "null" -> TRUE
         [] l.type \in {"boolean", "number", "string"} -> l.value = r.value
         [] l.type \in {"object", "array"} -> l.ref = r.ref
         [] l.type = "native-fn" -> l.call = r.call
         [] l.type = "fn" -> FALSE

\* Two function values are the same function value: one evaluation of one
\* declaration.
SameFunction(l, r) == l.type = "fn" /\ r.type = "fn" /\ l = r

\* Two function values come from the same declaration of the program.
SameDeclaration(l, r) ==
    l.type = "fn" /\ r.type = "fn" /\ l.name = r.name /\ l.body = r.body

ComparisonStep ==
    /\ last'.kind = "BinaryExpression"
    /\ last'.node.operator \in {"==", "!="}

\* C15: == is value equality on null, booleans, numbers and strings and
\* identity on arrays, objects, functions and native functions (two
\* closures made by separate evaluations of one declaration are unequal),
\* operands of different tags are never equal, and != is its negation.
C15_EqualityByValueOrIdentity ==
    [][ComparisonStep =>
         LET l == Global(Collect.envs, "l")
             r == Global(Collect.envs, "r")
             same == SameValue(l, r) \/ SameFunction(l, r)
         IN
         /\ thrown' = "none"
         /\ result' = MK_BOOL(IF last'.node.operator = "==" THEN same ELSE ~same)]_vars

\* What the comparisons do: as C15 says for every tag but functions, and
\* two function values are equal when they come from one declaration,
\* whatever scope each has captured.
FunctionsEqualByDeclaration ==
    [][ComparisonStep =>
         LET l == Global(Collect.envs, "l")
             r == Global(Collect.envs, "r")
             same == SameValue(l, r) \/ SameDeclaration(l, r)
         IN
         /\ thrown' = "none"
         /\ result' = MK_BOOL(IF last'.node.operator = "==" THEN same ELSE ~same)]_vars

-----------------------------------------------------------------------------
(* The ternary sugar.                                                      *)

\* What a piece of source text evaluates to, as a line of its own.
Evaluated(text, st) == evaluate(produceAST(text).node, GlobalEnv, st)

SameRuntimeValue(v, w) == v.type = w.type /\ v = w

\* The line the last step read.
Input == IF "input" \in DOMAIN last THEN last.input ELSE <<>>

\* The step reads the line text and the process goes on.
Accepts(text) == last'.input = text => last'.failed = ""

\* C16: test -> a | b, as a statement, evaluates to the value of a when
\* test evaluates to the boolean true and to the value of b otherwise, and
\* leaves x and the marks m and n as the selected branch alone leaves them:
\* the other branch is not evaluated.
C16_TernarySelectsOneBranch ==
    [][\A test \in TernaryTests, branches \in TernaryBranches :
           last'.input = TernaryLine("statement", test, branches) =>
               LET tested == Evaluated(test, Collect).val
                   selected == IF IsTrue(tested) THEN branches[1] ELSE branches[2]
                   alone == Evaluated(selected, Collect)
               IN /\ last'.failed = ""
                  /\ thrown' = alone.thrown
                  /\ SameRuntimeValue(result', alone.val)
                  /\ \A name \in {"x", "m", "n"} :
                         SameRuntimeValue(Global(envs', name),
                                          Global(alone.st.envs, name))]_vars

\* x is 10 and x > 5 -> "big" | "small" gave "big".
C16_Witness ==
    /\ Input = TernaryLine("statement", <<"x", " ", ">", " ", "5">>, <<Big, Small>>)
    /\ Global(envs, "x").type = "number"
    /\ Global(envs, "x").value = 10
    /\ result.type = "string"
    /\ result.value = "big"

\* x is 1 and x > 5 -> "big" | "small" gave "small".
C16_WitnessSmall ==
    /\ Input = TernaryLine("statement", <<"x", " ", ">", " ", "5">>, <<Big, Small>>)
    /\ Global(envs, "x").type = "number"
    /\ Global(envs, "x").value = 1
    /\ result.type = "string"
    /\ result.value = "small"

\* x is the number 1, not the boolean true, and x -> t() | e() ran e only.
C16_WitnessOtherBranch ==
    /\ Input = TernaryLine("statement", <<"x">>,
                           <<<<"t", "(", ")">>, <<"e", "(", ")">>>>)
    /\ Global(envs, "x").type = "number"
    /\ Global(envs, "m").value = 0
    /\ Global(envs, "n").value = 1

\* The value of the branch test selects, each evaluated as a line of its own
\* in the store st.
Selected(test, branches, st) ==
    Evaluated(IF IsTrue(Evaluated(test, st).val) THEN branches[1] ELSE branches[2],
              st)

\* C17: assignment binds looser than the ternary sugar: y = test -> a | b
\* is accepted and assigns y the value of the selected branch.
C17_AssignmentLooserThanTernary ==
    [][\A test \in TernaryTests, branches \in TernaryBranches :
           last'.input = TernaryLine("assignment", test, branches) =>
               /\ last'.failed = ""
               /\ SameRuntimeValue(Global(envs', "y"),
                                   Selected(test, branches, Collect).val)]_vars

\* The declaration form: let z = test -> a | b; is accepted and, where z is
\* not yet declared, binds z to the value of the selected branch.
DeclarationTakesTernary ==
    [][\A test \in TernaryTests, branches \in TernaryBranches :
           last'.input = TernaryLine("declaration", test, branches) =>
               /\ last'.failed = ""
               /\ IsUndefined(Global(Collect.envs, "z")) =>
                      SameRuntimeValue(Global(envs', "z"),
                                       Selected(test, branches, Collect).val)]_vars

\* The parser throws on y = test -> a | b, which ends the process.
AssignmentOfTernaryThrows ==
    [][\A test \in TernaryTests, branches \in TernaryBranches :
           last'.input = TernaryLine("assignment", test, branches) =>
               last'.failed = "throw"]_vars

-----------------------------------------------------------------------------
(* Member and call chains.                                                 *)

RECURSIVE ChainNode(_, _)
\* The one expression whose nesting follows the suffixes of chain in order.
ChainNode(primary, chain) ==
    IF chain = <<>> THEN Identifier(primary)
    ELSE LET object == ChainNode(primary, SubSeq(chain, 1, Len(chain) - 1))
             suffix == chain[Len(chain)]
         IN CASE suffix = "dot" -> MemberExpression(object, Identifier("b"), FALSE)
              [] suffix = "index" -> MemberExpression(object, NumericLiteral(0), TRUE)
              [] suffix = "call" -> CallExpression(object, <<Identifier("c")>>)
              [] suffix = "call0" -> CallExpression(object, <<>>)

\* The step reads primary followed by chain and parses it into the one
\* expression nested in the order of the suffixes.
ParsedAsChain(primary, chain) ==
    last'.input = ChainText(primary, chain) =>
        /\ last'.failed = ""
        /\ Len(last'.node.body) = 1
        /\ last'.node.body[1] = ChainNode(primary, chain)

\* C18: every sequence of .name, [expr] and (args) suffixes after a primary
\* parses into one expression nested in the order of the suffixes, member
\* and index suffixes after a call included.
C18_ChainsInterleave ==
    [][\A primary \in {"a", "f"}, chain \in Chains :
           ParsedAsChain(primary, chain)]_vars

\* No member or index suffix comes after a call in chain.
MembersFirst(chain) ==
    \A i, j \in 1..Len(chain) :
        chain[i] \in {"call", "call0"} /\ i < j => chain[j] \in {"call", "call0"}

\* Member and index suffixes followed by calls parse as one chain.
MembersThenCallsChain ==
    [][\A primary \in {"a", "f"}, chain \in Chains :
           MembersFirst(chain) => ParsedAsChain(primary, chain)]_vars

\* A member or index suffix after a call is not part of the call's
\* expression: .b ends the process, [0] starts a statement of its own.
SuffixAfterCallSplits ==
    [][\A primary \in {"a", "f"}, chain \in Chains :
           last'.input = ChainText(primary, chain) /\ ~MembersFirst(chain) =>
               \/ last'.failed = "exit"
               \/ last'.failed = "" /\ Len(last'.node.body) > 1]_vars

-----------------------------------------------------------------------------
(* Anonymous functions.                                                    *)

\* The step reads the anonymous function in the given form, and the line
\* evaluates to a function value with these parameters and this body that
\* has captured the global environment, no name being declared.
YieldsFunction(form, params, body) ==
    last'.input = AnonymousLine(form, params, body) =>
        /\ last'.failed = ""
        /\ thrown' = "none"
        /\ result'.type = "fn"
        /\ result'.name = "<anonymous>"
        /\ result'.declarationEnv = GlobalEnv
        /\ result'.params = params
        /\ result'.body = produceAST(body).node.body
        /\ DOMAIN envs'[GlobalEnv].variables
               = DOMAIN Collect.envs[GlobalEnv].variables

\* C19: an anonymous function written as a statement or as a call argument
\* is accepted by the parser and evaluates to a function value capturing
\* the current environment, without declaring a name.
C19_AnonymousFunctionIsExpression ==
    [][\A form \in {"statement", "argument"}, params \in AnonymousParams,
          body \in AnonymousBodies :
           YieldsFunction(form, params, body)]_vars

\* As a statement the anonymous function is such a value.
AnonymousStatementIsValue ==
    [][\A params \in AnonymousParams, body \in AnonymousBodies :
           YieldsFunction("statement", params, body)]_vars

\* As a call argument or as the value of a declaration it ends the process.
AnonymousInExpressionExits ==
    [][\A form \in {"argument", "declaration"}, params \in AnonymousParams,
          body \in AnonymousBodies :
           last'.input = AnonymousLine(form, params, body) =>
               last'.failed = "exit"]_vars

-----------------------------------------------------------------------------
(* A minus sign before a digit.                                            *)

\* The last two tokens of the line before EOF.
LastTokens(text) ==
    LET tokens == tokenize(text).tokens
    IN SubSeq(tokens, Len(tokens) - 2, Len(tokens) - 1)

\* The step reads the line, the lexer ends it with the operator - and the
\* number digit, and it evaluates to operand minus digit, the operand's
\* value taken before the step.
GivesDifference(line, operand, digit) ==
    last'.input = line =>
        /\ LastTokens(line) = <<token("-", "BinaryOperator"), token(digit, "Number")>>
        /\ last'.failed = ""
        /\ result'.type = "number"
        /\ result'.value = Evaluated(operand, Collect).val.value - parseFloat(digit)

\* C20: after an identifier, a closing parenthesis or a closing bracket, a
\* minus sign that a digit follows is the binary operator, and the digit a
\* positive number: i-1, f()-1 and a[0]-1 are subtractions.
C20_MinusAfterOperandIsBinary ==
    [][\A operand \in MinusOperands, digit \in MinusDigits :
           GivesDifference(MinusLine("tight", operand, digit), operand, digit)]_vars

\* With a space after the minus sign the same lines are subtractions.
SpacedMinusIsBinary ==
    [][\A operand \in MinusOperands, digit \in MinusDigits :
           GivesDifference(MinusLine("spaced", operand, digit), operand, digit)]_vars

\* Without it the minus sign belongs to the number whatever precedes it:
\* the line is the operand and then the negative literal, whose value is
\* the result.
TightMinusIsLiteral ==
    [][\A operand \in MinusOperands, digit \in MinusDigits :
           last'.input = MinusLine("tight", operand, digit) =>
               /\ LastTokens(last'.input)[1].type
                      \in {"Identifier", "CloseParen", "CloseBracket"}
               /\ LastTokens(last'.input)[2] = token("-" \o digit, "Number")
               /\ last'.failed = ""
               /\ Len(last'.node.body) = 2
               /\ result'.type = "number"
               /\ result'.value = 0 - parseFloat(digit)]_vars

-----------------------------------------------------------------------------
(* A minus sign before a name.                                             *)

\* tokens holds the number 0 and the operator - next to each other.
HasZeroMinus(tokens) ==
    \E i \in 1..(Len(tokens) - 1) :
        /\ tokens[i] = token("0", "Number")
        /\ tokens[i + 1] = token("-", "BinaryOperator")

\* The step reads the line, the lexer gives 0 and - for its minus sign and
\* the line evaluates to 0 minus the value the name had.
NegatesName(form, name) ==
    last'.input = UnaryLine(form, name) =>
        /\ tokenize(last'.input).failed = ""
        /\ HasZeroMinus(tokenize(last'.input).tokens)
        /\ last'.failed = ""
        /\ result'.type = "number"
        /\ result'.value = 0 - Global(Collect.envs, name).value

\* C21: a minus sign before a name, with no operand before it, is lexed as
\* 0 and -, the very first token of the source included, so that -x is
\* 0 - x; the lexer does not fail on it.
C21_UnaryMinusIsZeroMinus ==
    [][\A form \in UnaryForms, name \in {"x", "y"} : NegatesName(form, name)]_vars

\* After =, ( and the ( of a call the minus sign is lexed as 0 and -.
UnaryMinusAfterToken ==
    [][\A form \in UnaryForms \ {"first"}, name \in {"x", "y"} :
           NegatesName(form, name)]_vars

\* As the very first token it ends the lexer with a TypeError: there is no
\* previous token whose type could be read.
UnaryMinusFirstFails ==
    [][\A name \in {"x", "y"} :
           last'.input = UnaryLine("first", name) => last'.failed = "TypeError"]_vars


\* The tokens the lexer emits for a line of source text.
Tokens(text) == tokenize(text).tokens

\* C22: for every assignable path target, target++ and target-- lex to
\* exactly the tokens of target = target + 1 and target = target - 1, and
\* target OP= expr to those of target = target OP expr, whatever the
\* brackets of the path hold: a number, a string, a name or a sum.
C22_CompoundDesugarsToAssignment ==
    [][\A target \in PlainTargets \cup OtherTargets, operator \in CompoundOperators :
           last'.input = CompoundLine(target, operator)
               => /\ last'.failed = ""
                  /\ Tokens(CompoundLine(target, operator))
                         = Tokens(ExpandedLine(target, operator))]_vars

\* The same for paths whose brackets hold a number or a name only.
PlainTargetDesugars ==
    [][\A target \in PlainTargets, operator \in CompoundOperators :
           last'.input = CompoundLine(target, operator)
               => /\ last'.failed = ""
                  /\ Tokens(CompoundLine(target, operator))
                         = Tokens(ExpandedLine(target, operator))
                  /\ SameRuntimeValue(result',
                         Evaluated(ExpandedLine(target, operator), Collect).val)]_vars

\* A string or a sum in the brackets ends the duplicated run at the closing
\* bracket, and the line does not parse.
OtherTargetExits ==
    [][\A target \in OtherTargets, operator \in CompoundOperators :
           last'.input = CompoundLine(target, operator)
               => /\ last'.failed = "exit"
                  /\ getPrevIdents(SubSeq(Tokens(target), 1, Len(Tokens(target)) - 1))
                         = <<token("]", "CloseBracket")>>]_vars


\* C23: the lexer terminates on every source text: each pass of its loop
\* consumes a character or aborts, also at a compound operator (+=, -=, *=,
\* /=) that has no assignable target before it.
C23_LexerTerminates ==
    [][\A head \in LexerTargets \cup LexerOthers, operator \in CompoundOperators :
           last'.input = CompoundLine(head, operator)
               => tokenize(CompoundLine(head, operator)).failed # "hang"]_vars

\* With a name before the operator the lexer returns.
TargetedOperatorTerminates ==
    [][\A head \in LexerTargets, operator \in CompoundOperators :
           last'.input = CompoundLine(head, operator)
               => /\ tokenize(CompoundLine(head, operator)).failed = ""
                  /\ last'.failed = ""]_vars

\* With no target before it, +=, *= and /= are met again and again with
\* nothing consumed, and -= as well after a closing parenthesis; ++ and --
\* is lexed as two operators, - at the start of the text reads the last
\* token of none, and - at its end asks whether the character after the end
\* is a digit.
UntargetedOperatorHangs ==
    [][\A head \in LexerOthers, operator \in CompoundOperators :
           last'.input = CompoundLine(head, operator)
               => last'.failed =
                      CASE operator \in {"+=", "*=", "/="} -> "hang"
                        [] operator = "-=" /\ head = <<"(", "x", ")">> -> "hang"
                        [] operator = "-=" /\ head = <<>> -> "TypeError"
                        [] operator = "--" -> "TypeError"
                        [] OTHER -> "exit"]_vars


\* The timer of handle id is waiting to run its callback.
PendingIn(ids, id) == IF id \in DOMAIN ids THEN ids[id].pending ELSE FALSE

Pending(id) == PendingIn(timeoutIds, id)

\* C24: clearTimeout and clearInterval raise nothing; given a handle never
\* issued or the handle of a timeout that already fired they cancel nothing
\* and return false; they return true only for a pending handle, whose
\* callback does not run afterwards.
C24_ClearReturnsTrueOnlyForPending ==
    [][last'.kind \in {"clearTimeout", "clearInterval"}
           => /\ thrown' = "none"
              /\ result'.type = "boolean"
              /\ result'.value = Pending(last'.id)
              /\ ~Pending(last'.id) => timeoutIds' = timeoutIds
              /\ ~PendingIn(timeoutIds', last'.id)]_vars

\* A handle never issued: false, and nothing else happens.
NeverIssuedIsFalse ==
    [][last'.kind \in {"clearTimeout", "clearInterval"}
           /\ last'.id \notin DOMAIN timeoutIds
           => /\ thrown' = "none"
              /\ SameRuntimeValue(result', MK_BOOL(FALSE))
              /\ SameRuntimeValue(Global(envs', "r"), MK_BOOL(FALSE))
              /\ timeoutIds' = timeoutIds]_vars

\* A handle that was issued: true, whether its timer is pending, has fired
\* or was cancelled before, and the timer is not pending afterwards.
IssuedIsTrue ==
    [][last'.kind \in {"clearTimeout", "clearInterval"}
           /\ last'.id \in DOMAIN timeoutIds
           => /\ thrown' = "none"
              /\ SameRuntimeValue(result', MK_BOOL(TRUE))
              /\ SameRuntimeValue(Global(envs', "r"), MK_BOOL(TRUE))
              /\ ~PendingIn(timeoutIds', last'.id)]_vars

\* A callback runs for a pending timer only.
CallbackOfPendingOnly ==
    [][last'.kind = "callback" => Pending(last'.id)]_vars


\* v carries one of the eight tags.
Tagged(v) == v.type \in ValueType

\* Every value bound in a live environment other than under a name of
\* `except`, and every element and property of a live array or object.
StoredTagged(except) ==
    /\ \A e \in DOMAIN envs :
           envs[e].live =>
               \A name \in (DOMAIN envs[e].variables) \ except :
                   Tagged(envs[e].variables[name])
    /\ \A h \in DOMAIN heap :
           heap[h].live =>
               /\ \A j \in DOMAIN heap[h].elements : Tagged(heap[h].elements[j])
               /\ \A key \in DOMAIN heap[h].properties :
                      Tagged(heap[h].properties[key])

\* C25: every value the evaluator binds to a name, stores in an array or an
\* object or returns from a statement carries exactly one of the eight
\* tags; so do the parameters of a call given fewer arguments and the value
\* bound to error after a caught failure.
C25_EveryValueIsTagged ==
    /\ StoredTagged({})
    /\ thrown = "none" => Tagged(result)

\* Every binding but error holds a tagged value, and so does every result
\* but the value of error.
AllButErrorTagged ==
    /\ StoredTagged({"error"})
    /\ thrown = "none" => Tagged(result) \/ result.type = "<raised>"

\* After a caught failure error holds what was thrown, which has no tag.
CaughtErrorIsUntagged ==
    [][last'.kind = "TryCatchStatement" /\ thrown' = "none"
           /\ SameRuntimeValue(Global(envs, "hit"), MK_NUMBER(0))
           /\ SameRuntimeValue(Global(envs', "hit"), MK_NUMBER(1))
           => \E e \in DOMAIN envs' :
                  /\ envs'[e].live
                  /\ "error" \in DOMAIN envs'[e].variables
                  /\ envs'[e].variables["error"].type = "<raised>"]_vars

\* Every binding but a parameter holds a tagged value; the result of a call
\* that returns a parameter it was given no argument for has none.
MissingParameterIsUntagged ==
    /\ StoredTagged({"p", "q"})
    /\ thrown = "none" /\ ~Tagged(result)
           => /\ last.node.kind = "CallExpression"
              /\ Len(last.node.args) < Len(Global(envs, last.node.callee.symbol).params)


\* The value the literal of an operand evaluates to.
OperandValue(operand) == ReadIn(Collect, OperandExpr(operand))

\* C26: a binary expression evaluates both operands, left then right, before
\* it applies the operator, and never short-circuits: also for && and |,
\* and also when the left operand decides the result or has the wrong tag,
\* the effects of the right operand occur and its failure is raised.
C26_BothOperandsEvaluated ==
    [][\A left \in LeftOperands, operator \in OperandOperators,
          right \in RightOperands :
           last'.kind = "BinaryExpression"
           /\ last'.node = OperandsNode(left, operator, right)
           => /\ SameRuntimeValue(Global(envs', "x"), OperandValue(left))
              /\ CASE right = "copy" ->
                          /\ thrown' = "none"
                          /\ SameRuntimeValue(Global(envs', "y"), OperandValue(left))
                   [] right = "one" ->
                          /\ thrown' = "none"
                          /\ SameRuntimeValue(Global(envs', "y"), MK_NUMBER(1))
                   [] right = "fail" ->
                          /\ thrown' # "none"
                          /\ Global(envs', "y") = Global(envs, "y")]_vars

\* (x = false) && (y = x) was evaluated: y is false, and so is the result.
C26_Witness ==
    /\ last.kind = "BinaryExpression"
    /\ last.node = OperandsNode("false", "&&", "copy")
    /\ thrown = "none"
    /\ SameRuntimeValue(Global(envs, "y"), MK_BOOL(FALSE))
    /\ SameRuntimeValue(result, MK_BOOL(FALSE))


\* Every binding of the global environment but those named in `except` is
\* what it was before the step.
BindingsKept(except) ==
    [name \in (DOMAIN envs'[GlobalEnv].variables) \ except |->
         envs'[GlobalEnv].variables[name]]
        = [name \in (DOMAIN envs[GlobalEnv].variables) \ except |->
               envs[GlobalEnv].variables[name]]

\* C27: a read or a write through a path whose container is an array and
\* whose bracket expression is no number raises a failure that an enclosing
\* try/catch intercepts; the elements of the array and every binding other
\* than error are what they were, and a failed write stores its right-hand
\* value nowhere.
C27_NonNumberIndexRaises ==
    [][\A path \in IndexPaths, index \in NonNumbers, form \in IndexForms :
           /\ last'.kind = "Access" /\ last'.node = IndexAccess(path, index, form)
                  => /\ thrown' = "arrays do not have keys"
                     /\ heap' = heap
                     /\ BindingsKept({})
           /\ last'.kind = "TryCatchStatement"
              /\ last'.node = IndexTried(path, index, form)
                  => /\ thrown' = "none"
                     /\ result' = Raised("arrays do not have keys")
                     /\ Global(envs', "error") = Raised("arrays do not have keys")
                     /\ heap' = heap
                     /\ BindingsKept({"error"})]_vars

\* try { b[0][true] = 7 } catch { error } was evaluated on an array that a
\* write of 8 had changed before.
C27_Witness ==
    /\ last.kind = "TryCatchStatement"
    /\ last.node = IndexTried("b", "true", "seven")
    /\ thrown = "none"
    /\ result = Raised("arrays do not have keys")
    /\ SameRuntimeValue(Read(IndexPath("a", "one")), MK_NUMBER(8))


\* C28: a constant protects its binding, not the object or array it holds:
\* a path write rooted at a constant name succeeds and later reads of the
\* path see the value, while a plain assignment to the name fails and
\* leaves the name bound to the same aggregate, mutated as it is.
C28_ConstProtectsBindingOnly ==
    [][/\ \A path \in ConstPaths, v \in ConstValues :
              last'.kind = "PathWrite" /\ last'.node = ConstWrite(path, v)
                  => /\ thrown' = "none"
                     /\ SameRuntimeValue(
                            ReadIn([envs |-> envs', heap |-> heap'], ConstPath(path)),
                            ReadIn(Collect, ConstValue(v)))
                     /\ envs'[GlobalEnv] = envs[GlobalEnv]
       /\ \A name \in ConstNames, v \in ConstValues :
              last'.kind = "PlainAssign" /\ last'.node = ConstAssign(name, v)
                  => /\ thrown' = "cannot reassign constant"
                     /\ envs'[GlobalEnv] = envs[GlobalEnv]
                     /\ heap' = heap]_vars

\* obj = 1 was refused after obj.key = 2 and obj.fresh = other: obj still
\* holds the object with both writes.
C28_Witness ==
    /\ last.kind = "PlainAssign"
    /\ last.node = ConstAssign("obj", "one")
    /\ thrown = "cannot reassign constant"
    /\ SameRuntimeValue(Read(ConstPath("key")), MK_NUMBER(2))
    /\ SameRuntimeValue(Read(ConstPath("fresh")), Read(Identifier("other")))


\* The scope the closure stored in fns[k] was declared in, in the store st.
IterationScope(st, k) == ReadIn(st, Fn(k)).declarationEnv

\* C29: a for loop has one scope that holds its variable for the whole loop
\* and runs the body of each iteration in a fresh child of it: a name the
\* body declares is declared anew in every iteration without a failure,
\* neither the loop variable nor the names of the body can be resolved after
\* the loop, and the closures of different iterations share the one binding
\* of the loop variable, reading its latest value, and keep each its own
\* bindings of the body.
C29_LoopScopes ==
    [][/\ \A n \in LoopBounds, c \in LoopOffsets :
              last'.kind = "ForStatement" /\ last'.node = LoopNode(n, c)
              => \E after \in {[envs |-> envs', heap |-> heap']} :
                 /\ thrown' = "none"
                 /\ DOMAIN envs'[GlobalEnv].variables
                        = DOMAIN envs[GlobalEnv].variables
                 /\ \A name \in LoopNames :
                        evaluate(Identifier(name), GlobalEnv, after).thrown
                            = "cannot resolve"
                 /\ \A k \in 0..(n - 1) :
                        \E scope \in {IterationScope(after, k)} :
                        \E loop \in {envs'[scope].parent} :
                        /\ ReadIn(after, Fn(k)).type = "fn"
                        /\ DOMAIN envs'[scope].variables = {"b", "f"}
                        /\ SameRuntimeValue(envs'[scope].variables["b"],
                                            MK_NUMBER(k + c))
                        /\ DOMAIN envs'[loop].variables = {"i"}
                        /\ SameRuntimeValue(envs'[loop].variables["i"], MK_NUMBER(n))
                        /\ envs'[loop].parent = GlobalEnv
                        /\ \A j \in 0..(n - 1) :
                               /\ envs'[IterationScope(after, j)].parent = loop
                               /\ j # k => IterationScope(after, j) # scope
       /\ \A k \in 0..1 :
              /\ last'.kind = "CallExpression"
              /\ last'.node = CallExpression(Fn(k), <<>>)
              /\ Read(Fn(k)).type = "fn"
              => \E scope \in {IterationScope(Store, k)} :
                 /\ thrown' = "none"
                 /\ SameRuntimeValue(result',
                        MK_NUMBER(envs[envs[scope].parent].variables["i"].value * 10
                                      + envs[scope].variables["b"].value))]_vars

\* fns[0]() was called after a loop of two iterations: it yields 20, the
\* latest value of i and the b of its own iteration, while fns[1] holds
\* the closure of the other iteration.
C29_Witness ==
    /\ last.kind = "CallExpression"
    /\ last.node = CallExpression(Fn(0), <<>>)
    /\ thrown = "none"
    /\ SameRuntimeValue(result, MK_NUMBER(20))
    /\ Read(Fn(1)).type = "fn"
    /\ IterationScope(Store, 1) # IterationScope(Store, 0)
    /\ envs[IterationScope(Store, 1)].parent = envs[IterationScope(Store, 0)].parent


RECURSIVE RootOf(_, _, _)
\* The environment n parent links above e, or the one with no parent met
\* before.
RootOf(E, e, n) ==
    IF n = 0 \/ E[e].parent = 0 THEN e ELSE RootOf(E, E[e].parent, n - 1)

\* Every environment's constants are names it defines, its parent is an
\* environment, and its parent links end at the global environment.
WellFormed ==
    \A e \in DOMAIN envs :
        envs[e].live =>
            /\ envs[e].constants \subseteq DOMAIN envs[e].variables
            /\ envs[e].parent = 0 <=> e = GlobalEnv
            /\ envs[e].parent # 0 => envs[envs[e].parent].live
            /\ RootOf(envs, e, MaxEnvs) = GlobalEnv

\* An environment the program can reach keeps its parent, its names and its
\* constants over a step.
Monotone ==
    \A e \in DOMAIN envs :
        Collect.envs[e].live =>
            /\ envs'[e].live
            /\ envs'[e].parent = envs[e].parent
            /\ DOMAIN envs[e].variables \subseteq DOMAIN envs'[e].variables
            /\ envs[e].constants \subseteq envs'[e].constants

\* C30: after any sequence of declarations, assignments, path writes, block
\* entries, calls and try/catch statements, the constants of every
\* environment are among the names its own mapping defines, a name defined
\* in a scope is never removed from it, and the parent links of every
\* environment, fixed when it was created, lead to the one root without a
\* cycle.
C30_EnvironmentStructure == []WellFormed /\ [][Monotone]_vars

\* Inside a block that shadows x by a constant, after a try whose body
\* failed and a call of f: four environments and more are in the store.
C30_Witness ==
    /\ Len(cur) = 2
    /\ "x" \in envs[Top].constants
    /\ Global(envs, "error").type = "<raised>"
    /\ last.kind = "CallExpression"
    /\ thrown = "none"
    /\ Cardinality({e \in DOMAIN envs : envs[e].live}) >= 3

====
